---------------------------- MODULE Spec2Model ----------------------------
(***************************************************************************)
(* Wallet RPC layer of lbtc-core (src/wallet/rpcwallet.cpp): the fee-bump  *)
(* handler bumpfee and the payment entry points, over an in-memory wallet  *)
(* (mapWallet), the mempool and the fee policy.                            *)
(*                                                                         *)
(* Amounts are satoshis, fee rates are satoshis per 1000 bytes.  A         *)
(* transaction is identified by its content (GetHash is injective).        *)
(* Input sequence numbers are held as their offset from 0xffff0000, so     *)
(* 0xfffffffe is 65534 and 0xffffffff is 65535.                            *)
(***************************************************************************)
EXTENDS Integers, Sequences, FiniteSets, TLC

VARIABLES
    mapWallet,      \* pwalletMain->mapWallet: hash -> CWalletTx
    mempool,        \* mempool.mapTx: hash -> count with descendants
    minMempoolFee,  \* mempool.GetMinFee(...), satoshis per kB
    feeEstimate,    \* the estimator's rate for a confirmation target (0: none)
    payTxFee,       \* global payTxFee rate (settxfee)
    policy,         \* start-up fee policy: relay floors, maxTxFee, ...
    fLocked,        \* pwalletMain->IsLocked()
    setKeyPool,     \* pwalletMain->setKeyPool: the unused keys, in index order
    rpcResult,      \* request and reply of the last RPC call
    setLockedCoins, \* pwalletMain->setLockedCoins: the outpoints lockunspent locked
    csWallet,       \* the RPC thread that holds cs_main and cs_wallet, or "free"
    threads         \* RPC thread -> where it is in its call, the request, the draft

vars == <<mapWallet, mempool, minMempoolFee, feeEstimate, payTxFee, policy, fLocked,
          setKeyPool, setLockedCoins, rpcResult, csWallet, threads>>

\* ------------------------------------------------------------------ bounds

\* the number of transactions the wallet may come to hold
MaxWalletTx == 4

\* ------------------------------------------------------- program constants

WALLET_INCREMENTAL_RELAY_FEE == 5000
\* 0xfffffffe, as an offset from 0xffff0000
SEQUENCE_NON_REPLACEABLE == 65534
\* 0xffffffff, as an offset from 0xffff0000
SEQUENCE_FINAL == 65535

\* --------------------------------------------------------------- helpers

Max(a, b) == IF a >= b THEN a ELSE b

Min(a, b) == IF a <= b THEN a ELSE b

RECURSIVE SumSeq(_)
SumSeq(s) == IF s = <<>> THEN 0 ELSE Head(s) + SumSeq(Tail(s))

\* vector::erase(begin() + i), i counted from 1 here
EraseAt(s, i) == [k \in 1..(Len(s) - 1) |-> IF k < i THEN s[k] ELSE s[k + 1]]

\* ------------------------------------------------------------ fee rates

\* CFeeRate(nFeePaid, nBytes): the rate paid by a fee over a size
CFeeRate(nFeePaid, nBytes) == IF nBytes > 0 THEN (nFeePaid * 1000) \div nBytes ELSE 0

\* CFeeRate::GetFee: the fee a rate asks for a size, ceil(rate*size/1000)
GetFee(nSatoshisPerK, nBytes) == (nSatoshisPerK * nBytes + 999) \div 1000

\* CWallet::GetRequiredFee: the relay-fee floor for a size
GetRequiredFee(nTxBytes) == GetFee(policy.minRelayTxFee, nTxBytes)

\* CWallet::GetMinimumFee: a target fee if given, else the estimator's rate
\* for the confirmation target (0: no estimate, fall back to the configured
\* default); never below the relay floor, never above maxTxFee
GetMinimumFee(nTxBytes, estimate, targetFee) ==
    LET nFeeNeeded ==
            IF targetFee # 0 THEN targetFee
            ELSE IF estimate # 0 THEN GetFee(estimate, nTxBytes)
            ELSE GetFee(policy.fallbackFee, nTxBytes)
        floored == Max(nFeeNeeded, GetRequiredFee(nTxBytes))
    IN  Min(floored, policy.maxTxFee)

\* --------------------------------------------------------- transactions

\* scripts the wallet owns; the change scripts are those not in the address book
MyScripts == {"addrA", "chg", "chg2", "chg3", "chg4"}

IsMineScript(script) == script \in MyScripts

\* the wallet's addresses that are in the address book
AddressBook == {"addrA"}

\* CWallet::IsChange
IsChange(txout) == IsMineScript(txout.scriptPubKey) /\ txout.scriptPubKey \notin AddressBook

\* CTxOut::GetDustThreshold(dustRelayFee): three times the fee of creating
\* and spending the output (34 + 148 bytes for a pay-to-pubkey-hash output)
GetDustThreshold(txout) == 3 * GetFee(policy.dustRelayFee, 34 + 148)

\* the output an input spends, when the wallet holds its transaction
HasPrevOut(input) ==
    /\ input.prevout.hash \in DOMAIN mapWallet
    /\ input.prevout.n < Len(mapWallet[input.prevout.hash].tx.vout)

PrevOut(input) == mapWallet[input.prevout.hash].tx.vout[input.prevout.n + 1]

\* CWallet::IsAllFromMe(tx, ISMINE_SPENDABLE)
IsAllFromMe(tx) ==
    \A i \in 1..Len(tx.vin) :
        HasPrevOut(tx.vin[i]) /\ IsMineScript(PrevOut(tx.vin[i]).scriptPubKey)

\* CWalletTx::GetDebit(ISMINE_SPENDABLE): the value of the inputs that are ours
GetDebit(tx) ==
    SumSeq([i \in 1..Len(tx.vin) |->
        IF HasPrevOut(tx.vin[i]) /\ IsMineScript(PrevOut(tx.vin[i]).scriptPubKey)
        THEN PrevOut(tx.vin[i]).nValue ELSE 0])

\* CTransaction::GetValueOut
GetValueOut(tx) == SumSeq([i \in 1..Len(tx.vout) |-> tx.vout[i].nValue])

\* GetVirtualTransactionSize: 10 bytes of frame, 34 per output, and per input
\* 41 bytes of outpoint/sequence/length plus a script of signature and key
GetVirtualTransactionSize(tx) ==
    10 + SumSeq([i \in 1..Len(tx.vin) |-> 76 + tx.vin[i].sigLen]) + 34 * Len(tx.vout)

\* DummySignTx: every signature replaced by a 72-byte one
DummySignTx(tx) ==
    [tx EXCEPT !.vin = [i \in 1..Len(tx.vin) |-> [tx.vin[i] EXCEPT !.sigLen = 72]]]

CalculateMaximumSignedTxSize(tx) == GetVirtualTransactionSize(DummySignTx(tx))

\* SignalsOptInRBF: some input's sequence number is below 0xfffffffe
SignalsOptInRBF(tx) ==
    \E i \in 1..Len(tx.vin) : tx.vin[i].nSequence < SEQUENCE_NON_REPLACEABLE

\* CWallet::HasWalletSpend: a wallet transaction spends an output of hash
HasWalletSpend(hash) ==
    \E h \in DOMAIN mapWallet :
        \E i \in 1..Len(mapWallet[h].tx.vin) : mapWallet[h].tx.vin[i].prevout.hash = hash

\* ---------------------------------------------------------------- bumpfee

\* no transaction: the value of an absent txid
NullHash == [vin |-> <<>>, vout |-> <<>>]

\* the wallet's notes on a transaction that replaces nothing, is not replaced
\* and has no comment: comment and to are <<>> when mapValue has no such key,
\* and <<s>> when the key holds the string s
NoMapValue ==
    [replaced_by_txid |-> NullHash, replaces_txid |-> NullHash, comment |-> <<>>, to |-> <<>>]

\* what the collaborators may answer during one call: the signer fails, or
\* signs every input with a signature of full length; the mempool accepts
\* or rejects the replacement; the wallet database takes the replacement
\* record or not
AllGood == [signOk |-> TRUE, sigLen |-> 72, accepted |-> TRUE, persisted |-> TRUE]

Collaborators ==
    {AllGood,
     [AllGood EXCEPT !.signOk = FALSE],
     [AllGood EXCEPT !.accepted = FALSE],
     [AllGood EXCEPT !.persisted = FALSE]}

\* the collaborators answer when they are asked: a call that fails before it
\* signs (its outcome with every collaborator willing is an error) asks none
Asked(outWhenAllGood, collab) == outWhenAllGood.error = "ok" \/ collab = AllGood

\* the positions of the outputs of tx that are change
ChangeOutputs(tx) == {i \in 1..Len(tx.vout) : IsChange(tx.vout[i])}


\* the checks with the already-bumped check left out
EligibilityError_NoReplacedCheck(hash) ==
    IF fLocked THEN "WalletUnlockNeeded"
    ELSE IF hash \notin DOMAIN mapWallet THEN "InvalidTxid"
    ELSE IF HasWalletSpend(hash) THEN "WalletDescendants"
    ELSE IF hash \in DOMAIN mempool /\ mempool[hash] > 1 THEN "MempoolDescendants"
    ELSE IF mapWallet[hash].depth # 0 THEN "Mined"
    ELSE IF ~SignalsOptInRBF(mapWallet[hash].tx) THEN "NotReplaceable"
    ELSE IF ~IsAllFromMe(mapWallet[hash].tx) THEN "NotAllFromMe"
    ELSE IF Cardinality(ChangeOutputs(mapWallet[hash].tx)) > 1 THEN "MultipleChange"
    ELSE IF ChangeOutputs(mapWallet[hash].tx) = {} THEN "NoChange"
    ELSE "ok"

\* the checks with the confirmation check made first
EligibilityError_DepthFirst(hash) ==
    IF fLocked THEN "WalletUnlockNeeded"
    ELSE IF hash \notin DOMAIN mapWallet THEN "InvalidTxid"
    ELSE IF mapWallet[hash].depth # 0 THEN "Mined"
    ELSE IF HasWalletSpend(hash) THEN "WalletDescendants"
    ELSE IF hash \in DOMAIN mempool /\ mempool[hash] > 1 THEN "MempoolDescendants"
    ELSE IF ~SignalsOptInRBF(mapWallet[hash].tx) THEN "NotReplaceable"
    ELSE IF mapWallet[hash].mapValue.replaced_by_txid # NullHash THEN "AlreadyBumped"
    ELSE IF ~IsAllFromMe(mapWallet[hash].tx) THEN "NotAllFromMe"
    ELSE IF Cardinality(ChangeOutputs(mapWallet[hash].tx)) > 1 THEN "MultipleChange"
    ELSE IF ChangeOutputs(mapWallet[hash].tx) = {} THEN "NoChange"
    ELSE "ok"

\* the checks with the wallet-descendant check left out
EligibilityError_NoWalletSpendCheck(hash) ==
    IF fLocked THEN "WalletUnlockNeeded"
    ELSE IF hash \notin DOMAIN mapWallet THEN "InvalidTxid"
    ELSE IF hash \in DOMAIN mempool /\ mempool[hash] > 1 THEN "MempoolDescendants"
    ELSE IF mapWallet[hash].depth # 0 THEN "Mined"
    ELSE IF ~SignalsOptInRBF(mapWallet[hash].tx) THEN "NotReplaceable"
    ELSE IF mapWallet[hash].mapValue.replaced_by_txid # NullHash THEN "AlreadyBumped"
    ELSE IF ~IsAllFromMe(mapWallet[hash].tx) THEN "NotAllFromMe"
    ELSE IF Cardinality(ChangeOutputs(mapWallet[hash].tx)) > 1 THEN "MultipleChange"
    ELSE IF ChangeOutputs(mapWallet[hash].tx) = {} THEN "NoChange"
    ELSE "ok"

\* the checks made on the original transaction, in the order of the code;
\* "ok" when all pass
EligibilityError(hash) ==
    IF fLocked THEN "WalletUnlockNeeded"
    ELSE IF hash \notin DOMAIN mapWallet THEN "InvalidTxid"
    ELSE IF HasWalletSpend(hash) THEN "WalletDescendants"
    ELSE IF hash \in DOMAIN mempool /\ mempool[hash] > 1 THEN "MempoolDescendants"
    ELSE IF mapWallet[hash].depth # 0 THEN "Mined"
    ELSE IF ~SignalsOptInRBF(mapWallet[hash].tx) THEN "NotReplaceable"
    ELSE IF mapWallet[hash].mapValue.replaced_by_txid # NullHash THEN "AlreadyBumped"
    ELSE IF ~IsAllFromMe(mapWallet[hash].tx) THEN "NotAllFromMe"
    ELSE IF Cardinality(ChangeOutputs(mapWallet[hash].tx)) > 1 THEN "MultipleChange"
    ELSE IF ChangeOutputs(mapWallet[hash].tx) = {} THEN "NoChange"
    ELSE "ok"

\* the checks on the options with the check against the required fee left out
OptionsError_NoRequiredFee(options, maxNewTxSize) ==
    IF options.hasConfTarget /\ options.hasTotalFee THEN "ConfTargetAndTotalFee"
    ELSE IF options.hasConfTarget /\ options.confTarget <= 0 THEN "InvalidConfTarget"
    ELSE "ok"

\* the checks on the options with the check of the confirmation target left out
OptionsError_AnyConfTarget(options, maxNewTxSize) ==
    IF options.hasConfTarget /\ options.hasTotalFee THEN "ConfTargetAndTotalFee"
    ELSE IF options.hasTotalFee /\ options.totalFee < GetRequiredFee(maxNewTxSize)
        THEN "TotalFeeBelowRequired"
    ELSE "ok"

\* the checks made on the options object
OptionsError(options, maxNewTxSize) ==
    IF options.hasConfTarget /\ options.hasTotalFee THEN "ConfTargetAndTotalFee"
    ELSE IF options.hasConfTarget /\ options.confTarget <= 0 THEN "InvalidConfTarget"
    ELSE IF options.hasTotalFee /\ options.totalFee < GetRequiredFee(maxNewTxSize)
        THEN "TotalFeeBelowRequired"
    ELSE "ok"

\* nOldFee
OldFee(tx) == GetDebit(tx) - GetValueOut(tx)

\* walletIncrementalRelayFee: the larger of the wallet's and the node's step
WalletIncrementalRelayFee ==
    Max(WALLET_INCREMENTAL_RELAY_FEE, policy.incrementalRelayFee)


\* minTotalFee without the incremental relay fee
MinTotalFee_NoIncrement(nOldFeeRate, maxNewTxSize) == GetFee(nOldFeeRate, maxNewTxSize)

\* minTotalFee: the least explicit total fee accepted
MinTotalFee(nOldFeeRate, maxNewTxSize) ==
    GetFee(nOldFeeRate, maxNewTxSize) + GetFee(policy.incrementalRelayFee, maxNewTxSize)

\* the least fee rate an estimated fee is raised to
MinNewFeeRate(nOldFeeRate) == nOldFeeRate + 1 + WalletIncrementalRelayFee

\* the fee of the estimate branch before the raise: with a confirmation target
\* the global payTxFee is ignored
EstimatedFee(options, maxNewTxSize) ==
    IF options.hasConfTarget
    THEN GetMinimumFee(maxNewTxSize, feeEstimate, 0)
    ELSE GetMinimumFee(maxNewTxSize, feeEstimate, GetFee(payTxFee, maxNewTxSize))

\* nNewFee and nNewFeeRate, or the error of the totalFee branch
ResolveFee(options, nOldFeeRate, maxNewTxSize) ==
    LET totalFee == IF options.hasTotalFee THEN options.totalFee ELSE 0
        est      == EstimatedFee(options, maxNewTxSize)
        estRate  == CFeeRate(est, maxNewTxSize)
    IN  IF totalFee > 0
        THEN IF totalFee < MinTotalFee(nOldFeeRate, maxNewTxSize)
             THEN [error |-> "TotalFeeBelowMinimum", nNewFee |-> 0, nNewFeeRate |-> 0]
             ELSE [error |-> "ok", nNewFee |-> totalFee,
                   nNewFeeRate |-> CFeeRate(totalFee, maxNewTxSize)]
        ELSE IF estRate < MinNewFeeRate(nOldFeeRate)
             THEN [error |-> "ok",
                   nNewFee |-> GetFee(MinNewFeeRate(nOldFeeRate), maxNewTxSize),
                   nNewFeeRate |-> MinNewFeeRate(nOldFeeRate)]
             ELSE [error |-> "ok", nNewFee |-> est, nNewFeeRate |-> estRate]

\* the check of the new fee against maxTxFee
ExceedsMaxTxFee(nNewFee) == nNewFee > policy.maxTxFee

\* the check against the mempool's minimum fee rate left out
BelowMempoolMinFee_Never(nNewFeeRate) == FALSE

\* the check of the new fee rate against the mempool's minimum fee rate
BelowMempoolMinFee(nNewFeeRate) == nNewFeeRate < minMempoolFee


\* the change check made after setting the dust threshold aside
ChangeTooSmall_AfterDust(nValue, nDelta) == nValue - 546 < nDelta

\* the check that the change output can pay the increase
ChangeTooSmall(nValue, nDelta) == nValue < nDelta


\* the dust check that drops only an empty output
IsDust_OnlyEmpty(txout) == txout.nValue <= 0

\* the check that the reduced change output is dust
IsDust(txout) == txout.nValue <= GetDustThreshold(txout)


\* the outputs with the last output erased in place of the change output
BumpOutputs_EraseLast(vout, nOutput, nDelta) ==
    LET reduced == [vout EXCEPT ![nOutput].nValue = @ - nDelta]
    IN  IF IsDust(reduced[nOutput]) THEN EraseAt(reduced, Len(reduced)) ELSE reduced

\* the outputs of the replacement: the change output nOutput reduced by
\* nDelta, and erased when that leaves dust
BumpOutputs(vout, nOutput, nDelta) ==
    LET reduced == [vout EXCEPT ![nOutput].nValue = @ - nDelta]
    IN  IF IsDust(reduced[nOutput]) THEN EraseAt(reduced, nOutput) ELSE reduced


\* the dust left out of the reported fee
DustToFee_Forgotten(vout, nOutput, nDelta) == 0

\* the dust converted to fee: the value left in an erased change output
DustToFee(vout, nOutput, nDelta) ==
    LET reduced == [vout EXCEPT ![nOutput].nValue = @ - nDelta]
    IN  IF IsDust(reduced[nOutput]) THEN reduced[nOutput].nValue ELSE 0

\* the inputs of the replacement when every sequence number is set to
\* 0xfffffffe for a replacement that is to be non-replaceable
BumpInputs_SetAll(vin, replaceable, sigLen) ==
    [i \in 1..Len(vin) |->
        [vin[i] EXCEPT
            !.nSequence = IF ~replaceable THEN SEQUENCE_NON_REPLACEABLE ELSE @,
            !.sigLen = sigLen]]

\* the inputs of the replacement: sequence numbers below 0xfffffffe raised to
\* it when the replacement is to be non-replaceable; signatures made anew
BumpInputs(vin, replaceable, sigLen) ==
    [i \in 1..Len(vin) |->
        [vin[i] EXCEPT
            !.nSequence = IF ~replaceable /\ @ < SEQUENCE_NON_REPLACEABLE
                          THEN SEQUENCE_NON_REPLACEABLE ELSE @,
            !.sigLen = sigLen]]

\* bumpfee up to the signing of the replacement: the error, or the new
\* transaction with the old fee, the new fee and the fee increase nDelta
\* (nDelta is kept from the point where the code computes it)
BumpFeeOutcome(hash, options, sign) ==
    LET Fail(e, d) == [error |-> e, tx |-> NullHash, nOldFee |-> 0, nNewFee |-> 0, nDelta |-> d]
    IN  IF EligibilityError(hash) # "ok" THEN Fail(EligibilityError(hash), 0)
        ELSE
        LET tx           == mapWallet[hash].tx
            nOutput      == CHOOSE i \in ChangeOutputs(tx) : TRUE
            txSize       == GetVirtualTransactionSize(tx)
            maxNewTxSize == CalculateMaximumSignedTxSize(tx)
            replaceable  == IF options.hasReplaceable THEN options.replaceable ELSE TRUE
            nOldFee      == OldFee(tx)
            nOldFeeRate  == CFeeRate(nOldFee, txSize)
            resolved     == ResolveFee(options, nOldFeeRate, maxNewTxSize)
            nDelta       == resolved.nNewFee - nOldFee
        IN  IF OptionsError(options, maxNewTxSize) # "ok"
                THEN Fail(OptionsError(options, maxNewTxSize), 0)
            ELSE IF resolved.error # "ok" THEN Fail(resolved.error, 0)
            ELSE IF ExceedsMaxTxFee(resolved.nNewFee) THEN Fail("FeeTooHigh", 0)
            ELSE IF BelowMempoolMinFee(resolved.nNewFeeRate) THEN Fail("BelowMempoolMinFee", 0)
            ELSE IF ~(nDelta > 0) THEN Fail("AssertionFailed", nDelta)
            ELSE IF ChangeTooSmall(tx.vout[nOutput].nValue, nDelta)
                THEN Fail("ChangeTooSmall", nDelta)
            ELSE IF ~sign.signOk THEN Fail("CantSign", nDelta)
            ELSE [error   |-> "ok",
                  tx      |-> [vin  |-> BumpInputs(tx.vin, replaceable, sign.sigLen),
                               vout |-> BumpOutputs(tx.vout, nOutput, nDelta)],
                  nOldFee |-> nOldFee,
                  nNewFee |-> resolved.nNewFee + DustToFee(tx.vout, nOutput, nDelta),
                  nDelta  |-> nDelta]

\* wtxBumped: the wallet record of the replacement
WtxBumped(wtx, txNew, hash) ==
    [tx |-> txNew, depth |-> 0,
     mapValue |-> [wtx.mapValue EXCEPT !.replaces_txid = hash]]

\* CWallet::CommitTransaction, wallet side: the transaction is added to the wallet
CommitTransaction(wallet, wtxNew) ==
    [h \in DOMAIN wallet \cup {wtxNew.tx} |-> IF h = wtxNew.tx THEN wtxNew ELSE wallet[h]]

\* two transactions spend a common outpoint
Conflicts(txa, txb) ==
    \E i \in 1..Len(txa.vin) : \E j \in 1..Len(txb.vin) : txa.vin[i].prevout = txb.vin[j].prevout

\* CWallet::CommitTransaction, mempool side: an accepted transaction enters
\* the mempool and evicts what it conflicts with
AcceptToMemoryPool(pool, tx, accepted) ==
    IF ~accepted THEN pool
    ELSE [h \in {g \in DOMAIN pool : ~Conflicts(g, tx)} \cup {tx} |->
            IF h = tx THEN 1 ELSE pool[h]]

\* CWallet::MarkReplaced: the replaced_by link is recorded on the original
\* when the record is persisted
MarkReplaced(wallet, originalHash, newHash, persisted) ==
    IF persisted
    THEN [wallet EXCEPT ![originalHash].mapValue.replaced_by_txid = newHash]
    ELSE wallet


\* the wallet when the original is marked before the replacement is signed
WalletAfterBump_MarkBeforeSign(wallet, hash, out, persisted) ==
    IF out.error = "CantSign"
    THEN [wallet EXCEPT ![hash].mapValue.replaced_by_txid = hash]
    ELSE IF out.error # "ok" THEN wallet
    ELSE MarkReplaced(CommitTransaction(wallet, WtxBumped(wallet[hash], out.tx, hash)),
                      hash, out.tx, persisted)

\* the wallet when a replacement whose record could not be written is taken
\* out again
WalletAfterBump_RollbackUnmarked(wallet, hash, out, persisted) ==
    IF out.error # "ok" \/ ~persisted THEN wallet
    ELSE MarkReplaced(CommitTransaction(wallet, WtxBumped(wallet[hash], out.tx, hash)),
                      hash, out.tx, persisted)

\* the wallet when a call that finds the change too small abandons the
\* original
WalletAfterBump_AbandonOnFailure(wallet, hash, out, persisted) ==
    IF out.error = "ChangeTooSmall" THEN [wallet EXCEPT ![hash].depth = -1]
    ELSE IF out.error # "ok" THEN wallet
    ELSE MarkReplaced(CommitTransaction(wallet, WtxBumped(wallet[hash], out.tx, hash)),
                      hash, out.tx, persisted)

\* the wallet when the replacement is committed and the original is left
\* without the mark
WalletAfterBump_LeaveUnmarked(wallet, hash, out, persisted) ==
    IF out.error # "ok" THEN wallet
    ELSE CommitTransaction(wallet, WtxBumped(wallet[hash], out.tx, hash))

\* the wallet after a bumpfee call
WalletAfterBump(wallet, hash, out, persisted) ==
    IF out.error # "ok" THEN wallet
    ELSE MarkReplaced(CommitTransaction(wallet, WtxBumped(wallet[hash], out.tx, hash)),
                      hash, out.tx, persisted)

\* the reply that turns a rejection by the mempool into an error
BumpFeeReply_AbortOnRejection(hash, out, accepted, persisted) ==
    [method  |-> "bumpfee", hash |-> hash,
     error   |-> IF out.error = "ok" /\ ~accepted THEN "Rejected" ELSE out.error,
     txid    |-> IF accepted THEN out.tx ELSE NullHash,
     origfee |-> out.nOldFee,
     fee     |-> out.nNewFee,
     nDelta  |-> out.nDelta,
     errors  |-> IF out.error # "ok" \/ persisted THEN {} ELSE {"NotMarkedReplaced"}]

\* the reply of bumpfee: an error, or txid, origfee, fee and the errors list
BumpFeeReply(hash, out, accepted, persisted) ==
    [method  |-> "bumpfee", hash |-> hash,
     error   |-> out.error,
     txid    |-> out.tx,
     origfee |-> out.nOldFee,
     fee     |-> out.nNewFee,
     nDelta  |-> out.nDelta,
     errors  |-> IF out.error # "ok" THEN {}
                 ELSE (IF accepted THEN {} ELSE {"Rejected"})
                      \cup (IF persisted THEN {} ELSE {"NotMarkedReplaced"})]

\* the wallet, the mempool and the reply after bumpfee got as far as out
Bumped(hash, out, collab) ==
    /\ Cardinality(DOMAIN mapWallet) < MaxWalletTx
    /\ mapWallet' = WalletAfterBump(mapWallet, hash, out, collab.persisted)
    /\ mempool' = IF out.error # "ok" THEN mempool
                  ELSE AcceptToMemoryPool(mempool, out.tx, collab.accepted)
    /\ rpcResult' = BumpFeeReply(hash, out, collab.accepted, collab.persisted)
    /\ UNCHANGED <<minMempoolFee, feeEstimate, payTxFee, policy, fLocked, setKeyPool,
                   setLockedCoins>>

\* bumpfee, called with a txid and an options object, the collaborators
\* answering collab
BumpFee(hash, options, collab) ==
    /\ Asked(BumpFeeOutcome(hash, options, AllGood), collab)
    /\ Bumped(hash, BumpFeeOutcome(hash, options, collab), collab)
    /\ UNCHANGED <<csWallet, threads>>

\* ------------------------------------------------------------------ sends

RECURSIVE SetToSeq(_)
SetToSeq(S) ==
    IF S = {} THEN <<>>
    ELSE LET x == CHOOSE y \in S : TRUE IN <<x>> \o SetToSeq(S \ {x})

\* CWallet::IsSpent: a wallet transaction that is not conflicted spends the outpoint
IsSpent(outpoint) ==
    \E h \in DOMAIN mapWallet :
        /\ mapWallet[h].depth >= 0
        /\ \E i \in 1..Len(h.vin) : h.vin[i].prevout = outpoint

\* the coins a send may spend when the locks of lockunspent are not looked at
AvailableCoins_IgnoreLocks ==
    UNION {{[hash |-> h, n |-> i - 1] :
                i \in {j \in 1..Len(h.vout) :
                          /\ IsMineScript(h.vout[j].scriptPubKey)
                          /\ ~IsSpent([hash |-> h, n |-> j - 1])}} :
           h \in {g \in DOMAIN mapWallet : mapWallet[g].depth >= 1}}

\* the coins a send may spend: confirmed, owned, unspent outputs that are
\* not locked
AvailableCoins ==
    UNION {{[hash |-> h, n |-> i - 1] :
                i \in {j \in 1..Len(h.vout) :
                          /\ IsMineScript(h.vout[j].scriptPubKey)
                          /\ ~IsSpent([hash |-> h, n |-> j - 1])
                          /\ [hash |-> h, n |-> j - 1] \notin setLockedCoins}} :
           h \in {g \in DOMAIN mapWallet : mapWallet[g].depth >= 1}}

\* the output a coin is
CoinOut(outpoint) == outpoint.hash.vout[outpoint.n + 1]

\* the coins of one address, in the order they are spent
CoinsOf(fromAddress) ==
    SetToSeq({c \in AvailableCoins : CoinOut(c).scriptPubKey = fromAddress})

\* CWallet::GetAddressBalance: the value of the coins of one address
GetAddressBalance(fromAddress) ==
    LET coins == CoinsOf(fromAddress)
    IN  SumSeq([i \in 1..Len(coins) |-> CoinOut(coins[i]).nValue])

\* CBitcoinAddress::IsValid
IsValid(address) == address # "bad"

\* CReserveKey::GetReservedKey: the key the pool hands out next, "" when the
\* pool is empty
NextPoolKey == IF setKeyPool = <<>> THEN "" ELSE Head(setKeyPool)

\* the key a call holds reserved when CreateTransaction returns: none when
\* the change goes to destChange, when there is no change, or when the change
\* was dust and the key went back to the pool
ReservedKey(destChange, nChange, change) ==
    IF destChange = "" /\ nChange > 0 /\ ~IsDust(change) THEN change.scriptPubKey ELSE ""

\* CWallet::CreateTransaction for the recipients vecSend paid from the coins
\* of fromAddress: the fee is the minimum fee for the size with a change
\* output; it is taken from the change, or in equal parts from the
\* recipients that have fSubtractFeeFromAmount (the first takes the
\* remainder); the change goes to destChange or else to a key reserved from
\* the pool; change at or below dust is dropped into the fee
CreateTransaction(vecSend, fromAddress, destChange, sign) ==
    LET coins     == CoinsOf(fromAddress)
        vin       == [i \in 1..Len(coins) |->
                         [prevout |-> coins[i], nSequence |-> SEQUENCE_NON_REPLACEABLE,
                          sigLen |-> sign.sigLen]]
        nTotal    == SumSeq([i \in 1..Len(coins) |-> CoinOut(coins[i]).nValue])
        nValue    == SumSeq([i \in 1..Len(vecSend) |-> vecSend[i].nAmount])
        subtract  == {i \in 1..Len(vecSend) : vecSend[i].fSubtractFeeFromAmount}
        nSubtract == Cardinality(subtract)
        script    == IF destChange # "" THEN destChange ELSE NextPoolKey
        draft     == [vin  |-> vin,
                      vout |-> [i \in 1..Len(vecSend) |->
                                   [nValue |-> vecSend[i].nAmount,
                                    scriptPubKey |-> vecSend[i].scriptPubKey]]
                               \o <<[nValue |-> 0, scriptPubKey |-> script]>>]
        nBytes    == CalculateMaximumSignedTxSize(draft)
        nFee      == GetMinimumFee(nBytes, feeEstimate, GetFee(payTxFee, nBytes))
        nPaid(i)  == IF i \notin subtract THEN vecSend[i].nAmount
                     ELSE vecSend[i].nAmount - nFee \div nSubtract
                          - (IF \A k \in subtract : i <= k THEN nFee % nSubtract ELSE 0)
        nChange   == IF nSubtract > 0 THEN nTotal - nValue ELSE nTotal - nValue - nFee
        payments  == [i \in 1..Len(vecSend) |->
                         [nValue |-> nPaid(i), scriptPubKey |-> vecSend[i].scriptPubKey]]
        change    == [nValue |-> nChange, scriptPubKey |-> script]
        reserved  == ReservedKey(destChange, nChange, change)
        Fail(e, k) == [error |-> e, tx |-> NullHash, nFeeRequired |-> nFee, reserved |-> k]
    IN  IF nChange < 0 THEN Fail("InsufficientFundsForFee", "")
        ELSE IF \E i \in 1..Len(vecSend) : nPaid(i) <= 0 \/ IsDust(payments[i])
            THEN Fail("AmountTooSmall", "")
        ELSE IF nChange > 0 /\ script = "" THEN Fail("KeypoolRanOut", "")
        ELSE IF ~sign.signOk THEN Fail("CantSign", reserved)
        ELSE IF IsDust(change)
             THEN [error |-> "ok", tx |-> [vin |-> vin, vout |-> payments],
                   nFeeRequired |-> nFee + nChange, reserved |-> reserved]
             ELSE [error |-> "ok", tx |-> [vin |-> vin, vout |-> payments \o <<change>>],
                   nFeeRequired |-> nFee, reserved |-> reserved]

\* the outcome of a request refused before CreateTransaction
Refused(e) == [error |-> e, tx |-> NullHash, nFeeRequired |-> 0, reserved |-> ""]

\* SendMoneyNew with the amount checked against the balance of the whole wallet
SendMoneyNew_WalletBalance(address, nValue, fSubtractFeeFromAmount, fromAddress, sign) ==
    LET coins == SetToSeq(AvailableCoins)
    IN  IF nValue <= 0 THEN Refused("InvalidAmount")
        ELSE IF nValue > SumSeq([i \in 1..Len(coins) |-> CoinOut(coins[i]).nValue])
            THEN Refused("InsufficientFunds")
        ELSE CreateTransaction(<<[scriptPubKey |-> address, nAmount |-> nValue,
                                  fSubtractFeeFromAmount |-> fSubtractFeeFromAmount]>>,
                               fromAddress, "", sign)

\* SendMoneyNew up to the commit: the error, or the transaction created
SendMoneyNew(address, nValue, fSubtractFeeFromAmount, fromAddress, sign) ==
    IF nValue <= 0 THEN Refused("InvalidAmount")
    ELSE IF nValue > GetAddressBalance(fromAddress) THEN Refused("InsufficientFunds")
    ELSE CreateTransaction(<<[scriptPubKey |-> address, nAmount |-> nValue,
                              fSubtractFeeFromAmount |-> fSubtractFeeFromAmount]>>,
                           fromAddress, "", sign)

\* the reply of a send: an error, or the txid (the fee is what
\* CreateTransaction returned in nFeeRequired)
SendReply(method, out) ==
    [method |-> method, hash |-> NullHash, error |-> out.error, txid |-> out.tx,
     origfee |-> 0, fee |-> IF out.error = "ok" THEN out.nFeeRequired ELSE 0,
     nDelta |-> 0, errors |-> {}]


\* the key pool when a key reserved by a call that fails is not returned
KeyPoolAfter_NoReturn(pool, out) ==
    IF out.reserved # "" THEN Tail(pool) ELSE pool

\* the key pool when the call returns: CommitTransaction keeps the reserved
\* key (CReserveKey::KeepKey), which leaves the pool; a call that throws
\* destroys its CReserveKey, which returns the key to the pool
KeyPoolAfter(pool, out) ==
    IF out.error = "ok" /\ out.reserved # "" THEN Tail(pool) ELSE pool

\* the wallet, the mempool and the key pool after a send whose wtx carries
\* the notes mapValue got as far as out
CommittedWith(method, out, collab, mapValue) ==
    /\ Cardinality(DOMAIN mapWallet) < MaxWalletTx
    /\ collab.persisted
    /\ mapWallet' = IF out.error # "ok" THEN mapWallet
                    ELSE CommitTransaction(mapWallet,
                            [tx |-> out.tx, depth |-> 0, mapValue |-> mapValue])
    /\ mempool' = IF out.error # "ok" THEN mempool
                  ELSE AcceptToMemoryPool(mempool, out.tx, collab.accepted)
    /\ setKeyPool' = KeyPoolAfter(setKeyPool, out)
    /\ rpcResult' = SendReply(method, out)
    /\ UNCHANGED <<minMempoolFee, feeEstimate, payTxFee, policy, fLocked, setLockedCoins>>

\* the wallet, the mempool and the key pool after a send without comments
\* got as far as out
Committed(method, out, collab) == CommittedWith(method, out, collab, NoMapValue)

\* a send that ran from the lock to the return in one step
Sent(method, out, collab) ==
    /\ Committed(method, out, collab)
    /\ UNCHANGED <<csWallet, threads>>

\* CWallet::SelectAddress: the addresses of the address book whose coins of
\* at least nMinDepth confirmations cover nValue; "" stands for none found
SelectAddress(nValue, nMinDepth) ==
    LET funded ==
          {a \in AddressBook :
              LET coins == SelectSeq(CoinsOf(a), LAMBDA c : mapWallet[c.hash].depth >= nMinDepth)
              IN  SumSeq([i \in 1..Len(coins) |-> CoinOut(coins[i]).nValue]) >= nValue}
    IN  IF funded = {} THEN {""} ELSE funded

\* sendtoaddress up to the commit, fromAddress being what SelectAddress found
SendToAddressOutcome(address, nAmount, fSubtractFeeFromAmount, fromAddress, sign) ==
    IF ~IsValid(address) THEN Refused("InvalidAddress")
    ELSE IF nAmount <= 0 THEN Refused("InvalidAmountForSend")
    ELSE IF fLocked THEN Refused("WalletUnlockNeeded")
    ELSE IF fromAddress = "" THEN Refused("InsufficientFunds")
    ELSE SendMoneyNew(address, nAmount, fSubtractFeeFromAmount, fromAddress, sign)

\* sendtoaddress: SelectAddress finds an address of the address book whose
\* balance covers the amount
SendToAddress(address, nAmount, fSubtractFeeFromAmount, collab) ==
    \E fromAddress \in SelectAddress(nAmount, 1) :
        LET send(sign) == SendToAddressOutcome(address, nAmount, fSubtractFeeFromAmount,
                                               fromAddress, sign)
        IN  /\ Asked(send(AllGood), collab)
            /\ Sent("sendtoaddress", send(collab), collab)

\* sendfromaddress up to the commit
SendFromAddressOutcome(fromAddress, address, nAmount, fSubtractFeeFromAmount, sign) ==
    IF ~IsValid(fromAddress) \/ ~IsValid(address) THEN Refused("InvalidAddress")
    ELSE IF nAmount <= 0 THEN Refused("InvalidAmountForSend")
    ELSE IF fLocked THEN Refused("WalletUnlockNeeded")
    ELSE SendMoneyNew(address, nAmount, fSubtractFeeFromAmount, fromAddress, sign)

\* sendfromaddress: the coins of fromAddress alone pay
SendFromAddress(fromAddress, address, nAmount, fSubtractFeeFromAmount, collab) ==
    LET send(sign) == SendFromAddressOutcome(fromAddress, address, nAmount,
                                             fSubtractFeeFromAmount, sign)
    IN  /\ Asked(send(AllGood), collab)
        /\ Sent("sendfromaddress", send(collab), collab)

\* a parameter of a request that is a string, a number, null, or not given
\* (request.params is too short to hold it)
StrValue(s) == [type |-> "VSTR", val |-> s]
NumValue == [type |-> "VNUM", val |-> ""]
NullValue == [type |-> "VNULL", val |-> ""]
NotGiven == [type |-> "none", val |-> ""]

\* the notes of the wtx of a sendfromaddress call when each comment is
\* tested itself, as sendtoaddress does with its own comments
WalletComments_OwnParameter(amount, comment, comment_to) ==
    [error   |-> "ok",
     comment |-> IF comment.type = "VSTR" /\ comment.val # "" THEN <<comment.val>> ELSE <<>>,
     to      |-> IF comment_to.type = "VSTR" /\ comment_to.val # "" THEN <<comment_to.val>>
                 ELSE <<>>]

\* the notes sendfromaddress puts on its wtx, or the error of a get_str()
\* on a value that is not a string: the comment, params[3], is stored when
\* it is given and not null and the amount, params[2], is a string that is
\* not empty; the comment_to, params[4], when it is given and not null and
\* the comment, params[3], is a string that is not empty
WalletComments(amount, comment, comment_to) ==
    LET fComment == comment.type \notin {"none", "VNULL"}
        fTo      == comment_to.type \notin {"none", "VNULL"}
    IN  IF fComment /\ amount.type # "VSTR" THEN [error |-> "NotAString", comment |-> <<>>, to |-> <<>>]
        ELSE IF fTo /\ comment.type # "VSTR" THEN [error |-> "NotAString", comment |-> <<>>, to |-> <<>>]
        ELSE [error   |-> "ok",
              comment |-> IF fComment /\ amount.val # "" THEN <<comment.val>> ELSE <<>>,
              to      |-> IF fTo /\ comment.val # "" THEN <<comment_to.val>> ELSE <<>>]

\* sendfromaddress up to the commit when the request has the amount as a
\* number or a string, and comments
SendFromAddressParamsOutcome(fromAddress, address, amount, nAmount, comment, comment_to, sign) ==
    IF ~IsValid(fromAddress) \/ ~IsValid(address) THEN Refused("InvalidAddress")
    ELSE IF nAmount <= 0 THEN Refused("InvalidAmountForSend")
    ELSE IF WalletComments(amount, comment, comment_to).error # "ok"
        THEN Refused(WalletComments(amount, comment, comment_to).error)
    ELSE SendFromAddressOutcome(fromAddress, address, nAmount, FALSE, sign)

\* sendfromaddress called with from_address, to_address, the amount (a number
\* or a string that AmountFromValue reads as nAmount), comment and comment_to
SendFromAddressParams(fromAddress, address, amount, nAmount, comment, comment_to, collab) ==
    LET send(sign) == SendFromAddressParamsOutcome(fromAddress, address, amount, nAmount,
                                                   comment, comment_to, sign)
        notes      == WalletComments(amount, comment, comment_to)
    IN  /\ Asked(send(AllGood), collab)
        /\ CommittedWith("sendfromaddress", send(collab), collab,
                         [NoMapValue EXCEPT !.comment = notes.comment, !.to = notes.to])
        /\ UNCHANGED <<csWallet, threads>>

\* the check on an entry of sendTo without the check for an address seen before
EntryError_NoDuplicateCheck(sendTo, i) ==
    IF ~IsValid(sendTo[i].name) THEN "InvalidAddress"
    ELSE IF sendTo[i].nAmount <= 0 THEN "InvalidAmountForSend"
    ELSE "ok"

\* the check sendmany makes on entry i of sendTo, the entries before it
\* having passed: a valid address, not seen before, with a positive amount
EntryError(sendTo, i) ==
    IF ~IsValid(sendTo[i].name) THEN "InvalidAddress"
    ELSE IF \E j \in 1..(i - 1) : sendTo[j].name = sendTo[i].name THEN "DuplicatedAddress"
    ELSE IF sendTo[i].nAmount <= 0 THEN "InvalidAmountForSend"
    ELSE "ok"

\* the error of the first entry of sendTo that fails its check; "ok" when
\* all pass
RecipientsError(sendTo) ==
    LET bad == {i \in 1..Len(sendTo) : EntryError(sendTo, i) # "ok"}
    IN  IF bad = {} THEN "ok"
        ELSE EntryError(sendTo, CHOOSE i \in bad : \A j \in bad : i <= j)

\* vecSend: the recipients of sendmany, each with its amount and whether the
\* fee is taken from it
VecSend(sendTo, subtractFeeFromAmount) ==
    [i \in 1..Len(sendTo) |->
        [scriptPubKey |-> sendTo[i].name, nAmount |-> sendTo[i].nAmount,
         fSubtractFeeFromAmount |-> sendTo[i].name \in subtractFeeFromAmount]]

\* totalAmount: the sum of the amounts of sendTo
TotalAmount(sendTo) == SumSeq([i \in 1..Len(sendTo) |-> sendTo[i].nAmount])

\* sendmany up to the commit, fromAddress being strFromAddress or, when that
\* is empty, what SelectAddress found
SendManyOutcome(sendTo, strFromAddress, strChangeAddress, subtractFeeFromAmount, fromAddress, sign) ==
    IF strFromAddress # "" /\ ~IsValid(strFromAddress) THEN Refused("InvalidAddress")
    ELSE IF strChangeAddress # "" /\ ~IsValid(strChangeAddress) THEN Refused("InvalidAddress")
    ELSE IF RecipientsError(sendTo) # "ok" THEN Refused(RecipientsError(sendTo))
    ELSE IF fLocked THEN Refused("WalletUnlockNeeded")
    ELSE IF strFromAddress # "" /\ GetAddressBalance(strFromAddress) < TotalAmount(sendTo)
        THEN Refused("InsufficientFunds")
    ELSE IF fromAddress = "" THEN Refused("InsufficientFunds")
    ELSE CreateTransaction(VecSend(sendTo, subtractFeeFromAmount), fromAddress,
                           strChangeAddress, sign)

\* sendmany: the recipients sendTo are paid in one transaction from the
\* coins of strFromAddress, or of an address SelectAddress finds when it is
\* empty; the change goes to strChangeAddress, or to a reserved key when it
\* is empty
SendMany(sendTo, strFromAddress, strChangeAddress, nMinDepth, subtractFeeFromAmount, collab) ==
    \E fromAddress \in IF strFromAddress # "" THEN {strFromAddress}
                        ELSE SelectAddress(TotalAmount(sendTo), nMinDepth) :
        LET send(sign) == SendManyOutcome(sendTo, strFromAddress, strChangeAddress,
                                          subtractFeeFromAmount, fromAddress, sign)
        IN  /\ Asked(send(AllGood), collab)
            /\ Sent("sendmany", send(collab), collab)

\* the data-carrier output CreateTransaction adds for opdata
OpreturnOut == [nValue |-> 0, scriptPubKey |-> "OP_RETURN"]

\* the transaction of a payload payment, or the error met building it, the
\* fee being nFee: recipient is paid from the coins of fromAddress and the
\* data-carrier output is added. The target is the amount and the fee;
\* fromAmount is the way of the builder with a recipient amount that leaves
\* nothing for the fee: FALSE when it refuses for want of funds, TRUE when
\* it takes the fee out of the amount. What is left goes back to fromAddress.
OpreturnTransaction(recipient, fromAddress, nFee, fromAmount, sign) ==
    LET coins   == CoinsOf(fromAddress)
        vin     == [i \in 1..Len(coins) |->
                       [prevout |-> coins[i], nSequence |-> SEQUENCE_NON_REPLACEABLE,
                        sigLen |-> sign.sigLen]]
        nTotal  == SumSeq([i \in 1..Len(coins) |-> CoinOut(coins[i]).nValue])
        nPaid   == IF fromAmount /\ recipient.nAmount + nFee > nTotal
                   THEN nTotal - nFee ELSE recipient.nAmount
        nChange == nTotal - nPaid - nFee
        payment == [nValue |-> nPaid, scriptPubKey |-> recipient.scriptPubKey]
        change  == [nValue |-> nChange, scriptPubKey |-> fromAddress]
        Fail(e) == [error |-> e, tx |-> NullHash, nFeeRequired |-> nFee, reserved |-> ""]
    IN  IF nChange < 0 THEN Fail("InsufficientFundsForFee")
        ELSE IF nPaid <= 0 \/ IsDust(payment) THEN Fail("AmountTooSmall")
        ELSE IF ~sign.signOk THEN Fail("CantSign")
        ELSE IF IsDust(change)
             THEN [error |-> "ok", tx |-> [vin |-> vin, vout |-> <<payment, OpreturnOut>>],
                   nFeeRequired |-> nFee + nChange, reserved |-> ""]
             ELSE [error |-> "ok", tx |-> [vin |-> vin, vout |-> <<payment, OpreturnOut, change>>],
                   nFeeRequired |-> nFee, reserved |-> ""]

\* the size CreateTransaction computes the fee of a payload payment for
OpreturnBytes(recipient, fromAddress, sign) ==
    LET coins == CoinsOf(fromAddress)
    IN  CalculateMaximumSignedTxSize(
            [vin  |-> [i \in 1..Len(coins) |->
                          [prevout |-> coins[i], nSequence |-> SEQUENCE_NON_REPLACEABLE,
                           sigLen |-> sign.sigLen]],
             vout |-> <<[nValue |-> recipient.nAmount, scriptPubKey |-> recipient.scriptPubKey],
                        OpreturnOut>>])

\* CreateTransaction for a payload payment when coinControl.nMinimumTotalFee
\* is not looked at: the fee is the minimum fee for the size
CreateOpreturnTransaction_EstimatedFee(recipient, fromAddress, nMinimumTotalFee, fromAmount, sign) ==
    LET nBytes == OpreturnBytes(recipient, fromAddress, sign)
    IN  OpreturnTransaction(recipient, fromAddress,
                            GetMinimumFee(nBytes, feeEstimate, GetFee(payTxFee, nBytes)),
                            fromAmount, sign)

\* CWallet::CreateTransaction called with coinControl, fromAddress and
\* opdata: the fee is the minimum fee for the size, raised to
\* coinControl.nMinimumTotalFee when that is more
CreateOpreturnTransaction(recipient, fromAddress, nMinimumTotalFee, fromAmount, sign) ==
    LET nBytes  == OpreturnBytes(recipient, fromAddress, sign)
        nNeeded == GetMinimumFee(nBytes, feeEstimate, GetFee(payTxFee, nBytes))
    IN  OpreturnTransaction(recipient, fromAddress,
                            IF nMinimumTotalFee > nNeeded THEN nMinimumTotalFee ELSE nNeeded,
                            fromAmount, sign)

\* the recipient SendWithOpreturn hands to CreateTransaction: the address
\* itself, for the whole of its balance, the fee not to be subtracted
OpreturnRecipient(address) ==
    [scriptPubKey |-> address, nAmount |-> GetAddressBalance(address),
     fSubtractFeeFromAmount |-> FALSE]

\* SendWithOpreturn up to the commit, as its callers reach it: the fee is
\* checked against the balance of address, then CreateTransaction is given
\* the recipient, the fee as coinControl.nMinimumTotalFee, and the payload
SendWithOpreturnOutcome(address, fee, fromAmount, sign) ==
    IF fLocked THEN Refused("WalletUnlockNeeded")
    ELSE IF fee > GetAddressBalance(address) THEN Refused("InsufficientFunds")
    ELSE CreateOpreturnTransaction(OpreturnRecipient(address), address, fee, fromAmount, sign)

\* a call that sends a payload (a registration, a vote, a token transfer)
\* from address with the fixed fee of its kind
SendWithOpreturn(address, fee, fromAmount, collab) ==
    /\ Asked(SendWithOpreturnOutcome(address, fee, fromAmount, AllGood), collab)
    /\ Sent("payload", SendWithOpreturnOutcome(address, fee, fromAmount, collab), collab)

\* ------------------------------------------------------------- lockunspent

\* the check lockunspent makes on one entry of its outputs array
OutputError(output) ==
    IF ~output.isObject THEN "ExpectedObject"
    ELSE IF ~output.isHex THEN "ExpectedHexTxid"
    ELSE IF output.vout < 0 THEN "VoutMustBePositive"
    ELSE "ok"

\* the error of a lockunspent call: that of the first entry that fails
RECURSIVE LockUnspentError(_)
LockUnspentError(outputs) ==
    IF outputs = <<>> THEN "ok"
    ELSE IF OutputError(Head(outputs)) # "ok" THEN OutputError(Head(outputs))
    ELSE LockUnspentError(Tail(outputs))

\* the locked coins when lockunspent checks every entry before it locks or
\* unlocks any
RECURSIVE LockedAfter_CheckFirst(_, _, _)
LockedAfter_CheckFirst(locked, fUnlock, outputs) ==
    IF LockUnspentError(outputs) # "ok" THEN locked
    ELSE IF outputs = <<>> THEN locked
    ELSE LET outpt == [hash |-> Head(outputs).txid, n |-> Head(outputs).vout]
         IN  LockedAfter_CheckFirst(IF fUnlock THEN locked \ {outpt} ELSE locked \cup {outpt},
                                    fUnlock, Tail(outputs))

\* the locked coins after the loop of lockunspent: each entry is checked and
\* then locked or unlocked, in order, up to the first entry that fails
RECURSIVE LockedAfter(_, _, _)
LockedAfter(locked, fUnlock, outputs) ==
    IF outputs = <<>> THEN locked
    ELSE IF OutputError(Head(outputs)) # "ok" THEN locked
    ELSE LET outpt == [hash |-> Head(outputs).txid, n |-> Head(outputs).vout]
         IN  LockedAfter(IF fUnlock THEN locked \ {outpt} ELSE locked \cup {outpt},
                         fUnlock, Tail(outputs))

\* lockunspent: without an outputs array every coin is unlocked when fUnlock
\* is set and nothing is done otherwise; with one, its entries are locked or
\* unlocked
LockUnspent(fUnlock, hasOutputs, outputs) ==
    /\ setLockedCoins' = IF hasOutputs THEN LockedAfter(setLockedCoins, fUnlock, outputs)
                         ELSE IF fUnlock THEN {} ELSE setLockedCoins
    /\ rpcResult' = [method |-> "lockunspent", hash |-> NullHash,
                     error |-> IF hasOutputs THEN LockUnspentError(outputs) ELSE "ok",
                     txid |-> NullHash, origfee |-> 0, fee |-> 0, nDelta |-> 0, errors |-> {}]
    /\ UNCHANGED <<mapWallet, mempool, minMempoolFee, feeEstimate, payTxFee, policy, fLocked,
                   setKeyPool, csWallet, threads>>

\* ------------------------------------------------------------- environment

\* a block connects that mines the unconfirmed wallet transaction hash: it
\* leaves the mempool, and the wallet transactions it conflicts with become
\* conflicted (negative depth)
BlockConnected(hash) ==
    /\ hash \in DOMAIN mapWallet
    /\ mapWallet[hash].depth = 0
    /\ \A i \in 1..Len(hash.vin) :
          hash.vin[i].prevout.hash \in DOMAIN mapWallet
             => mapWallet[hash.vin[i].prevout.hash].depth > 0
    /\ mapWallet' = [h \in DOMAIN mapWallet |->
            IF h = hash THEN [mapWallet[h] EXCEPT !.depth = 1]
            ELSE IF mapWallet[h].depth = 0 /\ Conflicts(h, hash)
                 THEN [mapWallet[h] EXCEPT !.depth = -1]
            ELSE mapWallet[h]]
    /\ mempool' = [h \in {g \in DOMAIN mempool : g # hash /\ ~Conflicts(g, hash)} |-> mempool[h]]
    /\ UNCHANGED <<minMempoolFee, feeEstimate, payTxFee, policy, fLocked,
                   setKeyPool, setLockedCoins, rpcResult, csWallet, threads>>

\* a transaction spending an output of the mempool transaction hash enters the mempool
MempoolDescendant(hash) ==
    /\ hash \in DOMAIN mempool
    /\ mempool[hash] = 1
    /\ mempool' = [mempool EXCEPT ![hash] = 2]
    /\ UNCHANGED <<mapWallet, minMempoolFee, feeEstimate, payTxFee, policy, fLocked,
                   setKeyPool, setLockedCoins, rpcResult, csWallet, threads>>

\* the transaction that spends output n of hash to a foreign script
ChildOf(hash, n) ==
    [vin  |-> <<[prevout |-> [hash |-> hash, n |-> n - 1],
                 nSequence |-> SEQUENCE_FINAL, sigLen |-> 72]>>,
     vout |-> <<[nValue |-> hash.vout[n].nValue, scriptPubKey |-> "ext"]>>]

\* the wallet learns of a transaction that spends the change output of its
\* unconfirmed transaction hash
WalletDescendant(hash) ==
    /\ Cardinality(DOMAIN mapWallet) < MaxWalletTx
    /\ hash \in DOMAIN mapWallet
    /\ mapWallet[hash].depth = 0
    /\ ChangeOutputs(hash) # {}
    /\ ~HasWalletSpend(hash)
    /\ mapWallet' = CommitTransaction(mapWallet,
            [tx |-> ChildOf(hash, CHOOSE n \in ChangeOutputs(hash) : TRUE), depth |-> 0,
             mapValue |-> NoMapValue])
    /\ UNCHANGED <<mempool, minMempoolFee, feeEstimate, payTxFee, policy, fLocked,
                   setKeyPool, setLockedCoins, rpcResult, csWallet, threads>>

\* ------------------------------------------------------------ initial wallet

\* an input that spends output 0 of a transaction
InputOf(hash, nSequence, sigLen) ==
    [prevout |-> [hash |-> hash, n |-> 0], nSequence |-> nSequence, sigLen |-> sigLen]

\* a confirmed transaction that pays the wallet's address
FundingTx ==
    [vin  |-> <<InputOf(NullHash, SEQUENCE_FINAL, 72)>>,
     vout |-> <<[nValue |-> 100000, scriptPubKey |-> "addrA"]>>]

\* a transaction the wallet does not hold, paying somebody else
ForeignTx ==
    [vin  |-> <<InputOf(NullHash, SEQUENCE_FINAL, 72)>>,
     vout |-> <<[nValue |-> 100000, scriptPubKey |-> "ext"]>>]

\* a second confirmed transaction that pays the wallet's address
FundingTx2 ==
    [vin  |-> <<InputOf(ForeignTx, SEQUENCE_FINAL, 72)>>,
     vout |-> <<[nValue |-> 50000, scriptPubKey |-> "addrA"]>>]

Sequences == {65533, SEQUENCE_FINAL}

Layouts == {"changeFirst", "changeLast", "noChange", "twoChange"}

\* the outputs of an original transaction paying a fee of 300 from an input of 100000
OriginalOutputs(layout, nChange) ==
    CASE layout = "changeFirst" ->
            <<[nValue |-> nChange, scriptPubKey |-> "chg"],
              [nValue |-> 99700 - nChange, scriptPubKey |-> "ext"]>>
      [] layout = "changeLast" ->
            <<[nValue |-> 99700 - nChange, scriptPubKey |-> "ext"],
              [nValue |-> nChange, scriptPubKey |-> "chg"]>>
      [] layout = "noChange" ->
            <<[nValue |-> 99700, scriptPubKey |-> "ext"]>>
      [] layout = "twoChange" ->
            <<[nValue |-> nChange, scriptPubKey |-> "chg"],
              [nValue |-> 99700 - 2 * nChange, scriptPubKey |-> "ext"],
              [nValue |-> nChange, scriptPubKey |-> "chg2"]>>

\* an unconfirmed transaction that spends the funding transaction
OriginalTx(from, nSequence, sigLen, layout, nChange) ==
    [vin |-> <<InputOf(from, nSequence, sigLen)>>, vout |-> OriginalOutputs(layout, nChange)]

\* an unconfirmed transaction of two inputs, paying a fee of 500: the first
\* input signals replaceability, the second is final
TwoInputTx ==
    [vin  |-> <<InputOf(FundingTx, 65533, 72), InputOf(FundingTx2, SEQUENCE_FINAL, 72)>>,
     vout |-> <<[nValue |-> 30000, scriptPubKey |-> "chg"],
                [nValue |-> 119500, scriptPubKey |-> "ext"]>>]

\* the confirmed transactions the wallet holds at the start: those the
\* unconfirmed ones spend
Confirmed(unconfirmed) ==
    {FundingTx} \cup
    {f \in {FundingTx2} : \E t \in unconfirmed : \E i \in 1..Len(t.vin) : t.vin[i].prevout.hash = f}

\* the unconfirmed transactions that pass the eligibility checks at the
\* start: they differ in change value, signature length and change position
EligibleTxs ==
    {OriginalTx(FundingTx, 65533, 72, "changeFirst", 1500),
     OriginalTx(FundingTx, 65533, 71, "changeFirst", 30000),
     OriginalTx(FundingTx, 65533, 71, "changeLast", 1500)}

\* the unconfirmed transactions that differ in layout, signalling and
\* ownership of the input
OriginalTxs ==
    EligibleTxs \cup
    {OriginalTx(from, seq, 71, layout, 1500) :
        from \in {FundingTx, ForeignTx}, seq \in Sequences, layout \in Layouts}

\* the fee environments: the start-up policy (-incrementalrelayfee,
\* -minrelaytxfee, -dustrelayfee, -fallbackfee, -maxtxfee, -paytxfee), the
\* mempool's minimum fee rate and the estimator's rate
DefaultEnv ==
    [incrementalRelayFee |-> 1000, minRelayTxFee |-> 1000, dustRelayFee |-> 1000,
     fallbackFee |-> 20000, maxTxFee |-> 10000000, payTxFee |-> 0,
     minMempoolFee |-> 0, feeEstimate |-> 0]

Environments ==
    {DefaultEnv,
     [DefaultEnv EXCEPT !.feeEstimate = 3000],
     [DefaultEnv EXCEPT !.feeEstimate = 3000, !.maxTxFee = 1500],
     [DefaultEnv EXCEPT !.feeEstimate = 3000, !.incrementalRelayFee = 0],
     [DefaultEnv EXCEPT !.feeEstimate = 3000, !.incrementalRelayFee = 6000],
     [DefaultEnv EXCEPT !.feeEstimate = 3000, !.minMempoolFee = 7000],
     [DefaultEnv EXCEPT !.feeEstimate = 3000, !.minRelayTxFee = 8000],
     [DefaultEnv EXCEPT !.payTxFee = 12000]}

NoOptions ==
    [hasConfTarget |-> FALSE, confTarget |-> 0, hasTotalFee |-> FALSE, totalFee |-> 0,
     hasReplaceable |-> FALSE, replaceable |-> TRUE]

\* the options objects tried
BumpOptions ==
    {NoOptions,
     [NoOptions EXCEPT !.hasReplaceable = TRUE, !.replaceable = FALSE],
     [NoOptions EXCEPT !.hasConfTarget = TRUE, !.confTarget = 2],
     [NoOptions EXCEPT !.hasConfTarget = TRUE, !.confTarget = 0],
     [NoOptions EXCEPT !.hasConfTarget = TRUE, !.confTarget = 2,
                       !.hasTotalFee = TRUE, !.totalFee = 1500]}
    \cup {[NoOptions EXCEPT !.hasTotalFee = TRUE, !.totalFee = f] : f \in {200, 300, 526, 1800}}

\* the send requests tried
SendRequests ==
    {[address |-> "ext", nAmount |-> 1000,   fSubtractFeeFromAmount |-> FALSE],
     [address |-> "ext", nAmount |-> 99000,  fSubtractFeeFromAmount |-> FALSE],
     [address |-> "ext", nAmount |-> 50000,  fSubtractFeeFromAmount |-> TRUE],
     [address |-> "bad", nAmount |-> 0,      fSubtractFeeFromAmount |-> FALSE]}

\* the send requests tried with a valid address and an amount that is not
\* positive
NoAmountRequests ==
    {[address |-> "ext", nAmount |-> 0,      fSubtractFeeFromAmount |-> FALSE],
     [address |-> "ext", nAmount |-> -1,     fSubtractFeeFromAmount |-> FALSE]}

\* the sendmany requests tried: two recipients paid from a named address or
\* from one sendmany selects, with the change to a reserved key or to a named
\* address; a fee taken from a recipient; a recipient named twice; an amount
\* of zero after a valid entry; a total above the balance; a bad address
SendManyRequest(sendTo, strFromAddress, strChangeAddress, subtractFeeFromAmount) ==
    [sendTo |-> sendTo, strFromAddress |-> strFromAddress,
     strChangeAddress |-> strChangeAddress, nMinDepth |-> 1,
     subtractFeeFromAmount |-> subtractFeeFromAmount]

SendManyRequests ==
    LET pay(name, nAmount) == [name |-> name, nAmount |-> nAmount]
    IN  {SendManyRequest(<<pay("ext", 1000), pay("ext2", 2000)>>, "addrA", "", {}),
         SendManyRequest(<<pay("ext", 1000), pay("ext2", 2000)>>, "", "chg2", {"ext2"}),
         SendManyRequest(<<pay("ext", 1000), pay("ext", 2000)>>, "addrA", "", {}),
         SendManyRequest(<<pay("ext", 1000), pay("ext2", 0)>>, "", "", {}),
         SendManyRequest(<<pay("ext", 60000), pay("ext2", 60000)>>, "addrA", "", {}),
         SendManyRequest(<<pay("ext", 1000), pay("bad", 2000)>>, "addrA", "bad", {}),
         [SendManyRequest(<<pay("ext", 1000), pay("ext2", 2000)>>, "addrA", "", {})
             EXCEPT !.nMinDepth = 2],
         [SendManyRequest(<<pay("ext", 1000), pay("ext2", 2000)>>, "", "", {})
             EXCEPT !.nMinDepth = 2]}

\* the addresses sendfromaddress is asked to pay from
FromAddresses == {"addrA"}

\* the txids bumpfee is called with: a wallet transaction that is not itself
\* a replacement, or a transaction the wallet does not hold
BumpTargets ==
    {h \in DOMAIN mapWallet : mapWallet[h].mapValue.replaces_txid = NullHash} \cup {ForeignTx}

\* the RPC threads of the server
Threads == {"rpc1", "rpc2"}

\* a thread between two calls
Idle == [pc |-> "idle", request |-> [method |-> "none"], out |-> Refused("none"),
         collab |-> AllGood]

NoReply ==
    [method |-> "none", hash |-> NullHash, error |-> "ok", txid |-> NullHash,
     origfee |-> 0, fee |-> 0, nDelta |-> 0, errors |-> {}]

\* the unused keys of the key pool at the start
KeyPool == <<"chg3", "chg4">>

\* the wallets at the start: an eligible transaction or none under every fee
\* environment, every other transaction under the default one, a locked
\* wallet, a wallet whose maxTxFee is low while the mempool's minimum
\* fee rate is high, and a wallet whose unconfirmed transaction has two inputs
Scenarios ==
    {[unconfirmed |-> u, env |-> e, fLocked |-> FALSE, setKeyPool |-> KeyPool] :
        u \in {{}} \cup {{t} : t \in EligibleTxs}, e \in Environments}
    \cup {[unconfirmed |-> {t}, env |-> DefaultEnv, fLocked |-> FALSE, setKeyPool |-> KeyPool] :
            t \in OriginalTxs}
    \cup {[unconfirmed |-> {t}, env |-> DefaultEnv, fLocked |-> TRUE, setKeyPool |-> KeyPool] :
            t \in EligibleTxs}
    \cup {[unconfirmed |-> {OriginalTx(FundingTx, 65533, 71, "changeFirst", 30000)},
           env |-> [DefaultEnv EXCEPT !.feeEstimate = 3000, !.maxTxFee = 1400,
                                      !.minMempoolFee = 7000],
           fLocked |-> FALSE, setKeyPool |-> KeyPool],
          [unconfirmed |-> {TwoInputTx}, env |-> DefaultEnv, fLocked |-> FALSE,
           setKeyPool |-> KeyPool]}

\* the state of scenario s, the wallet holding the confirmed transactions
\* confirmed
InitWith(s, confirmed) ==
    /\ mapWallet = [h \in confirmed \cup s.unconfirmed |->
            [tx |-> h, depth |-> IF h \in s.unconfirmed THEN 0 ELSE 1,
             mapValue |-> NoMapValue]]
    /\ mempool = [h \in s.unconfirmed |-> 1]
    /\ policy = [k \in {"incrementalRelayFee", "minRelayTxFee", "dustRelayFee",
                        "fallbackFee", "maxTxFee"} |-> s.env[k]]
    /\ payTxFee = s.env.payTxFee
    /\ minMempoolFee = s.env.minMempoolFee
    /\ feeEstimate = s.env.feeEstimate
    /\ fLocked = s.fLocked
    /\ setKeyPool = s.setKeyPool
    /\ setLockedCoins = {}
    /\ rpcResult = NoReply
    /\ csWallet = "free"
    /\ threads = [t \in Threads |-> Idle]

\* the state of scenario s
InitFrom(s) == InitWith(s, Confirmed(s.unconfirmed))

Init == \E s \in Scenarios : InitFrom(s)

Next ==
    \/ \E hash \in BumpTargets, options \in BumpOptions, collab \in Collaborators :
            BumpFee(hash, options, collab)
    \/ \E req \in SendRequests, collab \in Collaborators :
            SendToAddress(req.address, req.nAmount, req.fSubtractFeeFromAmount, collab)
    \/ \E fromAddress \in FromAddresses, req \in SendRequests, collab \in Collaborators :
            SendFromAddress(fromAddress, req.address, req.nAmount,
                            req.fSubtractFeeFromAmount, collab)
    \/ \E hash \in DOMAIN mapWallet : BlockConnected(hash)
    \/ \E hash \in DOMAIN mempool : MempoolDescendant(hash)
    \/ \E hash \in DOMAIN mapWallet : WalletDescendant(hash)

Spec == Init /\ [][Next]_vars

\* ------------------------------------------------------- the payment calls

\* the wallets at the start of the payment calls: no unconfirmed transaction
\* or one with change of 30000, with and without an estimate; a locked
\* wallet; a wallet whose key pool is empty
SendScenarios ==
    {[unconfirmed |-> u, env |-> e, fLocked |-> FALSE, setKeyPool |-> KeyPool] :
        u \in {{}, {OriginalTx(FundingTx, 65533, 71, "changeFirst", 30000)}},
        e \in {DefaultEnv, [DefaultEnv EXCEPT !.feeEstimate = 3000]}}
    \cup {[unconfirmed |-> {}, env |-> DefaultEnv, fLocked |-> TRUE, setKeyPool |-> KeyPool],
          [unconfirmed |-> {}, env |-> DefaultEnv, fLocked |-> FALSE, setKeyPool |-> <<>>]}

InitSends == \E s \in SendScenarios : InitFrom(s)

\* the payload calls tried: fees below and above the minimum fee of the
\* transaction, the whole balance of the address, and more than it
PayloadRequests ==
    {[address |-> "addrA", fee |-> f] : f \in {100, 1000, 100000, 200000}}

\* the payment calls with every request tried, bumpfee, and the blocks that
\* confirm what they sent
NextSends ==
    \/ \E req \in SendRequests \cup NoAmountRequests, collab \in Collaborators :
            SendToAddress(req.address, req.nAmount, req.fSubtractFeeFromAmount, collab)
    \/ \E fromAddress \in FromAddresses, req \in SendRequests \cup NoAmountRequests,
           collab \in Collaborators :
            SendFromAddress(fromAddress, req.address, req.nAmount,
                            req.fSubtractFeeFromAmount, collab)
    \/ \E req \in SendManyRequests, collab \in Collaborators :
            SendMany(req.sendTo, req.strFromAddress, req.strChangeAddress, req.nMinDepth,
                     req.subtractFeeFromAmount, collab)
    \/ \E req \in PayloadRequests, fromAmount \in BOOLEAN, collab \in Collaborators :
            SendWithOpreturn(req.address, req.fee, fromAmount, collab)
    \/ \E hash \in BumpTargets, options \in {NoOptions}, collab \in Collaborators :
            BumpFee(hash, options, collab)
    \/ \E hash \in DOMAIN mapWallet : BlockConnected(hash)

SpecSends == InitSends /\ [][NextSends]_vars

\* ------------------------------------------------------------ locked coins

\* an entry of the outputs array that names output 0 of a transaction
OutputOf(tx) == [isObject |-> TRUE, isHex |-> TRUE, txid |-> tx, vout |-> 0]

\* the lockunspent requests tried: lock and unlock of the two funding coins,
\* one at a time and both; unlock of everything; lists in which an entry that
\* is not an object, a txid that is not hex or a negative vout follows a valid
\* entry or stands alone
LockRequests ==
    {[fUnlock |-> u, hasOutputs |-> TRUE, outputs |-> o] :
        u \in BOOLEAN,
        o \in {<<OutputOf(FundingTx)>>, <<OutputOf(FundingTx2)>>,
               <<OutputOf(FundingTx), OutputOf(FundingTx2)>>}}
    \cup {[fUnlock |-> u, hasOutputs |-> FALSE, outputs |-> <<>>] : u \in BOOLEAN}
    \cup {[fUnlock |-> FALSE, hasOutputs |-> TRUE, outputs |-> o] :
            o \in {<<OutputOf(FundingTx), [OutputOf(NullHash) EXCEPT !.isObject = FALSE]>>,
                   <<OutputOf(FundingTx2), [OutputOf(NullHash) EXCEPT !.isHex = FALSE]>>,
                   <<[OutputOf(FundingTx) EXCEPT !.vout = -1]>>}}
    \cup {[fUnlock |-> TRUE, hasOutputs |-> TRUE,
           outputs |-> <<OutputOf(FundingTx), [OutputOf(FundingTx2) EXCEPT !.vout = -1]>>]}

\* the wallets at the start: two confirmed coins at the address, none spent
\* or the first spent by an unconfirmed transaction that can be replaced
LockScenarios ==
    {[unconfirmed |-> u, env |-> DefaultEnv, fLocked |-> FALSE, setKeyPool |-> KeyPool] :
        u \in {{}, {OriginalTx(FundingTx, 65533, 71, "changeFirst", 30000)}}}

InitLocks == \E s \in LockScenarios : InitWith(s, {FundingTx, FundingTx2})

\* lockunspent, the payment calls that select coins, bumpfee, and the blocks
\* that confirm what was sent
NextLocks ==
    \/ \E req \in LockRequests : LockUnspent(req.fUnlock, req.hasOutputs, req.outputs)
    \/ \E req \in {r \in SendRequests : r.nAmount \in {1000, 99000}}, collab \in {AllGood} :
            SendToAddress(req.address, req.nAmount, req.fSubtractFeeFromAmount, collab)
    \/ \E fromAddress \in FromAddresses, req \in {r \in SendRequests : r.nAmount = 50000},
           collab \in {AllGood} :
            SendFromAddress(fromAddress, req.address, req.nAmount,
                            req.fSubtractFeeFromAmount, collab)
    \/ \E req \in {r \in SendManyRequests : r.strChangeAddress = "chg2"}, collab \in {AllGood} :
            SendMany(req.sendTo, req.strFromAddress, req.strChangeAddress, req.nMinDepth,
                     req.subtractFeeFromAmount, collab)
    \/ \E req \in {r \in PayloadRequests : r.fee = 1000}, fromAmount \in BOOLEAN,
           collab \in {AllGood} :
            SendWithOpreturn(req.address, req.fee, fromAmount, collab)
    \/ \E hash \in BumpTargets, options \in {NoOptions}, collab \in {AllGood} :
            BumpFee(hash, options, collab)
    \/ \E hash \in DOMAIN mapWallet : BlockConnected(hash)

SpecLocks == InitLocks /\ [][NextLocks]_vars

\* --------------------------------------------------------- wallet comments

\* the amount of a request as a number and as a string: val is the text of
\* a string amount
AmountParams == {[NumValue EXCEPT !.val = "0.001"], StrValue("0.001")}

\* the comments of a request: not given, null, empty, or a text; comment_to
\* is given only after a comment
CommentParams ==
    {[comment |-> c, comment_to |-> t] :
        c \in {NullValue, StrValue(""), StrValue("donation")},
        t \in {NotGiven, NullValue, StrValue(""), StrValue("seans outpost")}}
    \cup {[comment |-> NotGiven, comment_to |-> NotGiven]}

\* the sendfromaddress calls with comments, and the blocks that confirm
\* what they sent
NextComments ==
    \/ \E address \in {"ext", "ext2", "bad"}, amount \in AmountParams, nAmount \in {1000, 0},
           c \in CommentParams, collab \in {AllGood} :
            SendFromAddressParams("addrA", address, amount, nAmount, c.comment, c.comment_to,
                                  collab)
    \/ \E hash \in DOMAIN mapWallet : BlockConnected(hash)

InitComments == \E s \in LockScenarios : InitWith(s, {FundingTx, FundingTx2})

SpecComments == InitComments /\ [][NextComments]_vars

\* ------------------------------------------------------------- RPC threads

\* the state of the wallet and of the node, all but the lock and the threads
walletVars == <<mapWallet, mempool, minMempoolFee, feeEstimate, payTxFee, policy, fLocked,
                setKeyPool, setLockedCoins, rpcResult>>

\* LOCK2(cs_main, pwalletMain->cs_wallet) lets a thread in whatever the
\* other threads do
EnterCriticalSection_NoLock(holder) == TRUE

\* LOCK2(cs_main, pwalletMain->cs_wallet): a thread gets past it when no
\* thread holds the two locks
EnterCriticalSection(holder) == holder = "free"

\* the calls the threads make: the three payment calls, a call that sends a
\* payload, and bumpfee with and without a total fee
ThreadRequests ==
    {[method |-> "sendtoaddress", address |-> "ext", nAmount |-> 1000,
      fSubtractFeeFromAmount |-> FALSE],
     [method |-> "sendfromaddress", fromAddress |-> "addrA", address |-> "ext",
      nAmount |-> 50000, fSubtractFeeFromAmount |-> TRUE],
     [method |-> "sendmany",
      sendTo |-> <<[name |-> "ext", nAmount |-> 1000], [name |-> "ext2", nAmount |-> 2000]>>,
      strFromAddress |-> "addrA", strChangeAddress |-> "", nMinDepth |-> 1,
      subtractFeeFromAmount |-> {}],
     [method |-> "payload", address |-> "addrA", fee |-> 1000],
     [method |-> "bumpfee",
      hash |-> OriginalTx(FundingTx, 65533, 71, "changeFirst", 30000),
      options |-> NoOptions],
     [method |-> "bumpfee",
      hash |-> OriginalTx(FundingTx, 65533, 71, "changeFirst", 30000),
      options |-> [NoOptions EXCEPT !.hasTotalFee = TRUE, !.totalFee = 1800]]}

\* the addresses the coins of a call may come from
FromChoices(request) ==
    CASE request.method = "sendtoaddress" -> SelectAddress(request.nAmount, 1)
      [] request.method = "sendmany" ->
            IF request.strFromAddress # "" THEN {request.strFromAddress}
            ELSE SelectAddress(TotalAmount(request.sendTo), request.nMinDepth)
      [] request.method = "sendfromaddress" -> {request.fromAddress}
      [] OTHER -> {""}

\* the ways of CreateTransaction with the fee of a payload payment
BuilderChoices(request) == IF request.method = "payload" THEN BOOLEAN ELSE {FALSE}

\* the call of a thread from the lock up to the commit, in the wallet as
\* it is now
Outcome(request, fromAddress, fromAmount, sign) ==
    CASE request.method = "sendtoaddress" ->
            SendToAddressOutcome(request.address, request.nAmount,
                                 request.fSubtractFeeFromAmount, fromAddress, sign)
      [] request.method = "sendfromaddress" ->
            SendFromAddressOutcome(request.fromAddress, request.address, request.nAmount,
                                   request.fSubtractFeeFromAmount, sign)
      [] request.method = "sendmany" ->
            SendManyOutcome(request.sendTo, request.strFromAddress, request.strChangeAddress,
                            request.subtractFeeFromAmount, fromAddress, sign)
      [] request.method = "payload" ->
            SendWithOpreturnOutcome(request.address, request.fee, fromAmount, sign)
      [] request.method = "bumpfee" ->
            BumpFeeOutcome(request.hash, request.options, sign)

\* thread t receives a request and comes to the lock
Call(t, request) ==
    /\ threads[t].pc = "idle"
    /\ Cardinality(DOMAIN mapWallet) < MaxWalletTx
    /\ threads' = [threads EXCEPT ![t] = [Idle EXCEPT !.pc = "waiting", !.request = request]]
    /\ UNCHANGED <<csWallet, walletVars>>

\* thread t takes cs_main and cs_wallet
Lock(t) ==
    /\ threads[t].pc = "waiting"
    /\ EnterCriticalSection(csWallet)
    /\ csWallet' = t
    /\ threads' = [threads EXCEPT ![t].pc = "locked"]
    /\ UNCHANGED walletVars

\* thread t checks its request, selects the coins, builds and signs the
\* transaction
Create(t) ==
    /\ threads[t].pc = "locked"
    /\ \E fromAddress \in FromChoices(threads[t].request),
          fromAmount \in BuilderChoices(threads[t].request), collab \in Collaborators :
          /\ Asked(Outcome(threads[t].request, fromAddress, fromAmount, AllGood), collab)
          /\ threads' = [threads EXCEPT
                            ![t].pc = "built",
                            ![t].out = Outcome(threads[t].request, fromAddress, fromAmount,
                                               collab),
                            ![t].collab = collab]
    /\ UNCHANGED <<csWallet, walletVars>>

\* thread t commits what it built, or throws the error it met
Commit(t) ==
    /\ threads[t].pc = "built"
    /\ IF threads[t].request.method = "bumpfee"
       THEN Bumped(threads[t].request.hash, threads[t].out, threads[t].collab)
       ELSE Committed(threads[t].request.method, threads[t].out, threads[t].collab)
    /\ threads' = [threads EXCEPT ![t].pc = "returning"]
    /\ UNCHANGED csWallet

\* thread t returns from its call: the locks are released
Unlock(t) ==
    /\ threads[t].pc = "returning"
    /\ csWallet' = "free"
    /\ threads' = [threads EXCEPT ![t] = Idle]
    /\ UNCHANGED walletVars

\* the wallets the threads start from: the funding coin unspent, or spent by
\* an unconfirmed transaction that can be replaced
ThreadScenarios ==
    {[unconfirmed |-> u, env |-> DefaultEnv, fLocked |-> FALSE, setKeyPool |-> KeyPool] :
        u \in {{}, {OriginalTx(FundingTx, 65533, 71, "changeFirst", 30000)}}}

InitThreads == \E s \in ThreadScenarios : InitFrom(s)

NextThreads ==
    \/ \E t \in Threads, request \in ThreadRequests : Call(t, request)
    \/ \E t \in Threads : Lock(t)
    \/ \E t \in Threads : Create(t)
    \/ \E t \in Threads : Commit(t)
    \/ \E t \in Threads : Unlock(t)

SpecThreads == InitThreads /\ [][NextThreads]_vars

\* ------------------------------------------------------------- properties

\* the wallet transactions recorded as the replacement of hash
Replacements(hash) ==
    {b \in DOMAIN mapWallet : mapWallet[b].mapValue.replaces_txid = hash}

\* the wallet transactions recorded as a replacement
Replacement == {b \in DOMAIN mapWallet : mapWallet[b].mapValue.replaces_txid # NullHash}

\* the fee rate a transaction pays: its fee over its size
FeeRateOf(tx) == CFeeRate(OldFee(tx), GetVirtualTransactionSize(tx))

\* a step that is a bumpfee call with a new reply
BumpCall == rpcResult' # rpcResult /\ rpcResult'.method = "bumpfee"

\* C1: every replacement a bumpfee call committed, whichever way its fee was
\* resolved, pays a fee rate of at least the fee rate of the transaction it
\* replaces plus the incremental relay fee rate
C1_RateRaisedByIncrement ==
    \A b \in Replacement :
        FeeRateOf(b) >= FeeRateOf(mapWallet[b].mapValue.replaces_txid) + policy.incrementalRelayFee

\* C1 witness: a replacement made with an explicit total fee that pays exactly
\* the old rate plus a positive incremental relay fee rate
C1_Witness ==
    \E b \in Replacement :
        /\ policy.incrementalRelayFee > 0
        /\ rpcResult.error = "ok" /\ rpcResult.txid = b
        /\ FeeRateOf(b) = FeeRateOf(mapWallet[b].mapValue.replaces_txid) + policy.incrementalRelayFee

\* C2: the fee a successful bumpfee call reports, dust included, is at most maxTxFee
C2_FeeWithinMaxTxFee ==
    (rpcResult.method = "bumpfee" /\ rpcResult.error = "ok") => rpcResult.fee <= policy.maxTxFee

\* C3: a bumpfee call that fails leaves the wallet and the mempool as they were
C3_FailureLeavesWalletUnchanged ==
    [][(BumpCall /\ rpcResult'.error # "ok") => (mapWallet' = mapWallet /\ mempool' = mempool)]_vars

\* C3 witness: a call that failed at the last step, signing, on a transaction
\* that is neither replaced nor linked
C3_Witness ==
    /\ rpcResult.method = "bumpfee" /\ rpcResult.error = "CantSign"
    /\ rpcResult.hash \in DOMAIN mapWallet
    /\ mapWallet[rpcResult.hash].mapValue.replaced_by_txid = NullHash
    /\ Replacements(rpcResult.hash) = {}

\* C4: at most one replacement is ever committed for a transaction
C4_AtMostOneReplacement ==
    \A hash \in DOMAIN mapWallet : Cardinality(Replacements(hash)) <= 1

\* the checks made before the already-bumped check pass for hash
EarlierChecksPass(hash) ==
    /\ ~fLocked
    /\ ~HasWalletSpend(hash)
    /\ ~(hash \in DOMAIN mempool /\ mempool[hash] > 1)
    /\ mapWallet[hash].depth = 0
    /\ SignalsOptInRBF(hash)

\* a bumpfee call on a wallet transaction that carries a replaced_by link
BumpCallOnReplaced ==
    /\ BumpCall
    /\ rpcResult'.hash \in DOMAIN mapWallet
    /\ mapWallet[rpcResult'.hash].mapValue.replaced_by_txid # NullHash

\* C5 as stated: a bumpfee call on a transaction that carries a replaced_by
\* link fails with the already-bumped error and changes nothing
C5_AlreadyBumpedError ==
    [][BumpCallOnReplaced => (rpcResult'.error = "AlreadyBumped" /\ mapWallet' = mapWallet)]_vars

\* C5: a bumpfee call on a transaction that carries a replaced_by link fails
\* and changes nothing in the wallet; the error is the already-bumped error
\* when the transaction has no descendant in wallet or mempool and is still
\* unconfirmed and not conflicted
C5_ReplacedNeverBumpedAgain ==
    [][BumpCallOnReplaced =>
          /\ rpcResult'.error # "ok"
          /\ mapWallet' = mapWallet
          /\ (EarlierChecksPass(rpcResult'.hash) => rpcResult'.error = "AlreadyBumped")]_vars

\* C5 witness: a call refused with the already-bumped error; the link still
\* points at the one replacement
C5_Witness ==
    /\ rpcResult.method = "bumpfee" /\ rpcResult.error = "AlreadyBumped"
    /\ Replacements(rpcResult.hash) = {mapWallet[rpcResult.hash].mapValue.replaced_by_txid}

\* the outpoints spent, in order
PrevOuts(tx) == [i \in 1..Len(tx.vin) |-> tx.vin[i].prevout]

NotChange(txout) == ~IsChange(txout)

\* C6: a replacement spends the outpoints of the original in the same order
\* and keeps its non-change outputs in value, script and order; the change
\* output is reduced in place or removed
C6_InputsAndPaymentsKept ==
    \A b \in Replacement :
        LET t == mapWallet[b].mapValue.replaces_txid
            n == CHOOSE i \in ChangeOutputs(t) : TRUE
        IN  /\ PrevOuts(b) = PrevOuts(t)
            /\ SelectSeq(b.vout, NotChange) = SelectSeq(t.vout, NotChange)
            /\ \/ /\ Len(b.vout) = Len(t.vout)
                  /\ \A i \in 1..Len(t.vout) : i # n => b.vout[i] = t.vout[i]
                  /\ b.vout[n].scriptPubKey = t.vout[n].scriptPubKey
                  /\ b.vout[n].nValue < t.vout[n].nValue
               \/ b.vout = EraseAt(t.vout, n)

\* C6 witness: a replacement whose change output, the first output of the
\* original, was removed
C6_Witness ==
    \E b \in Replacement :
        LET t == mapWallet[b].mapValue.replaces_txid
        IN  ChangeOutputs(t) = {1} /\ Len(t.vout) = 2 /\ Len(b.vout) = 1

\* the value of the change output of the transaction of the last call
ChangeValueOfCall ==
    LET t == rpcResult.hash
    IN  t.vout[CHOOSE i \in ChangeOutputs(t) : TRUE].nValue

\* C7: a call fails with ChangeTooSmall only when the change is less than the
\* fee increase, and a call that got past that check (it succeeded, or
\* failed at signing) had change of at least the fee increase
C7_ChangeTooSmallIffBelowDelta ==
    rpcResult.method = "bumpfee" =>
        /\ rpcResult.error = "ChangeTooSmall" => ChangeValueOfCall < rpcResult.nDelta
        /\ rpcResult.error \in {"ok", "CantSign"} => ChangeValueOfCall >= rpcResult.nDelta
        /\ rpcResult.error = "ok" => rpcResult.fee - rpcResult.origfee >= rpcResult.nDelta

\* C7 witness: a call that succeeded with change equal to the fee increase
C7_Witness ==
    /\ rpcResult.method = "bumpfee" /\ rpcResult.error = "ok"
    /\ ChangeValueOfCall = rpcResult.nDelta

\* C7 witness of the failure: a call refused with ChangeTooSmall
C7_WitnessTooSmall ==
    rpcResult.method = "bumpfee" /\ rpcResult.error = "ChangeTooSmall"

\* the last call succeeded
BumpOk == rpcResult.method = "bumpfee" /\ rpcResult.error = "ok"

SendOk ==
    rpcResult.method \in {"sendtoaddress", "sendfromaddress", "sendmany"} /\ rpcResult.error = "ok"

\* C8: the fee of a successful send is the value of the inputs less the value
\* of the outputs of the transaction sent; the fee and origfee a successful
\* bumpfee reports are those differences for the replacement and the original
C8_FeeIsInputsLessOutputs ==
    /\ SendOk => rpcResult.fee = GetDebit(rpcResult.txid) - GetValueOut(rpcResult.txid)
    /\ BumpOk => /\ rpcResult.fee = GetDebit(rpcResult.txid) - GetValueOut(rpcResult.txid)
                 /\ rpcResult.origfee = GetDebit(rpcResult.hash) - GetValueOut(rpcResult.hash)

\* C8 witness: a bump that reports more than the fee it resolved, the change
\* left below dust having gone to the fee
C8_Witness ==
    /\ BumpOk
    /\ rpcResult.fee - rpcResult.origfee > rpcResult.nDelta
    /\ rpcResult.origfee > 0

\* C8 witness of a send: a transaction sent without change, the fee raised by it
C8_WitnessSend ==
    SendOk /\ Len(rpcResult.txid.vout) = 1 /\ rpcResult.fee > 0

\* C9: a change output of a transaction sent or of a replacement is above its
\* dust threshold; where bumpfee removed the change output, all of its value
\* is in the fee
C9_ChangeAboveDust ==
    /\ \A b \in Replacement \cup (IF SendOk THEN {rpcResult.txid} ELSE {}) :
          \A i \in ChangeOutputs(b) : b.vout[i].nValue > GetDustThreshold(b.vout[i])
    /\ (BumpOk /\ ChangeOutputs(rpcResult.txid) = {}) =>
          rpcResult.fee = rpcResult.origfee + ChangeValueOfCall

\* C9 witness: a bump whose change, reduced to a positive value at or below
\* the dust threshold, is absent from the replacement
C9_Witness ==
    /\ BumpOk
    /\ ChangeOutputs(rpcResult.txid) = {}
    /\ ChangeValueOfCall - rpcResult.nDelta > 0
    /\ ChangeValueOfCall - rpcResult.nDelta <= GetDustThreshold(rpcResult.hash.vout[1])

\* C9 witness of kept change: a replacement that still has its change output
C9_WitnessKept ==
    \E b \in Replacement : ChangeOutputs(b) # {}

\* the eligibility conditions hash violates, by the error each is refused with
Violated(hash) ==
    [e \in {"Mined", "WalletDescendants", "MempoolDescendants", "NotReplaceable",
            "AlreadyBumped", "NotAllFromMe", "ChangeOutput"} |->
        CASE e = "Mined" -> mapWallet[hash].depth # 0
          [] e = "WalletDescendants" -> HasWalletSpend(hash)
          [] e = "MempoolDescendants" -> hash \in DOMAIN mempool /\ mempool[hash] > 1
          [] e = "NotReplaceable" -> ~SignalsOptInRBF(hash)
          [] e = "AlreadyBumped" -> mapWallet[hash].mapValue.replaced_by_txid # NullHash
          [] e = "NotAllFromMe" -> ~IsAllFromMe(hash)
          [] e = "ChangeOutput" -> Cardinality(ChangeOutputs(hash)) # 1]

\* the condition an error reports
ConditionOf(error) ==
    IF error \in {"MultipleChange", "NoChange"} THEN "ChangeOutput" ELSE error

\* the first condition of an order that hash violates; "none" when it violates none
FirstViolated(order, hash) ==
    LET bad == {i \in 1..Len(order) : Violated(hash)[order[i]]}
    IN  IF bad = {} THEN "none" ELSE order[CHOOSE i \in bad : \A j \in bad : i <= j]

\* the order in which the conditions are listed
ListedOrder ==
    <<"Mined", "WalletDescendants", "MempoolDescendants", "NotReplaceable",
      "AlreadyBumped", "NotAllFromMe", "ChangeOutput">>

\* the order in which bumpfee makes the checks
CheckedOrder ==
    <<"WalletDescendants", "MempoolDescendants", "Mined", "NotReplaceable",
      "AlreadyBumped", "NotAllFromMe", "ChangeOutput">>

\* a bumpfee call, the wallet unlocked, on a wallet transaction that violates
\* an eligibility condition
BumpCallOnIneligible ==
    /\ BumpCall
    /\ ~fLocked
    /\ rpcResult'.hash \in DOMAIN mapWallet
    /\ FirstViolated(ListedOrder, rpcResult'.hash) # "none"

\* C10 as stated: the error of a bumpfee call on a transaction that violates
\* eligibility conditions is that of the first violated in the order
\* unconfirmed, no wallet descendant, no mempool descendant, opt-in, not
\* replaced, inputs owned, one change output
C10_ListedOrder ==
    [][BumpCallOnIneligible =>
          ConditionOf(rpcResult'.error) = FirstViolated(ListedOrder, rpcResult'.hash)]_vars

\* C10: the error of a bumpfee call on a transaction that violates
\* eligibility conditions is that of the first violated in the order no
\* wallet descendant, no mempool descendant, unconfirmed, opt-in, not
\* replaced, inputs owned, one change output
C10_CheckedOrder ==
    [][BumpCallOnIneligible =>
          ConditionOf(rpcResult'.error) = FirstViolated(CheckedOrder, rpcResult'.hash)]_vars

\* C10 witness: a call on a transaction that is confirmed and has a wallet
\* descendant, refused for the descendant
C10_Witness ==
    /\ rpcResult.method = "bumpfee" /\ rpcResult.error = "WalletDescendants"
    /\ rpcResult.hash \in DOMAIN mapWallet
    /\ mapWallet[rpcResult.hash].depth # 0

\* a bumpfee call on a wallet transaction an output of which another wallet
\* transaction spends
BumpCallOnSpent ==
    /\ BumpCall
    /\ rpcResult'.hash \in DOMAIN mapWallet
    /\ HasWalletSpend(rpcResult'.hash)

\* C11: a bumpfee call on a transaction an output of which a wallet
\* transaction spends fails whatever the options; nothing is added to wallet
\* or mempool and the transaction keeps its record; the error is the one
\* about descendants in the wallet (an encrypted wallet that is locked is
\* refused for that before the transaction is looked at)
C11_WalletDescendantRefused ==
    [][BumpCallOnSpent =>
          /\ rpcResult'.error # "ok"
          /\ ~fLocked => rpcResult'.error = "WalletDescendants"
          /\ mapWallet' = mapWallet
          /\ mempool' = mempool]_vars

\* C11 witness: a call refused for a wallet descendant on an unconfirmed,
\* unreplaced transaction whose change the descendant spends
C11_Witness ==
    /\ rpcResult.method = "bumpfee" /\ rpcResult.error = "WalletDescendants"
    /\ rpcResult.hash \in DOMAIN mapWallet
    /\ mapWallet[rpcResult.hash].depth = 0
    /\ mapWallet[rpcResult.hash].mapValue.replaced_by_txid = NullHash
    /\ \E h \in DOMAIN mapWallet, n \in ChangeOutputs(rpcResult.hash) :
          h.vin[1].prevout = [hash |-> rpcResult.hash, n |-> n - 1]

\* a bumpfee call on a transaction that passes the checks made on it
BumpCallPassesChecks == BumpCall /\ EligibilityError(rpcResult'.hash) = "ok"

\* the step is the bumpfee call with these options and collaborators, and the
\* call got as far as the commit
BumpCommitted(options, collab) ==
    /\ BumpFeeOutcome(rpcResult'.hash, options, collab).error = "ok"
    /\ BumpFee(rpcResult'.hash, options, collab)

\* C12: a bumpfee call whose replacement the wallet commits and the mempool
\* rejects returns a result, not an error: the txid of the replacement, now
\* in the wallet while the mempool is as it was, the fee of the original,
\* the fee of the replacement, and the rejection in the errors list
C12_RejectionIsWarning ==
    [][BumpCallPassesChecks =>
       \A options \in BumpOptions, collab \in Collaborators :
          (~collab.accepted /\ BumpCommitted(options, collab)) =>
              /\ rpcResult'.error = "ok"
              /\ "Rejected" \in rpcResult'.errors
              /\ rpcResult'.txid \in DOMAIN mapWallet'
              /\ mapWallet'[rpcResult'.txid].mapValue.replaces_txid = rpcResult'.hash
              /\ mempool' = mempool
              /\ rpcResult'.origfee = OldFee(rpcResult'.hash)
              /\ rpcResult'.fee = OldFee(rpcResult'.txid)]_vars

\* C12 witness: a result that reports a rejection; the replacement is in the
\* wallet and the original is still in the mempool
C12_Witness ==
    /\ BumpOk
    /\ "Rejected" \in rpcResult.errors
    /\ rpcResult.txid \in DOMAIN mapWallet
    /\ rpcResult.txid \notin DOMAIN mempool
    /\ rpcResult.hash \in DOMAIN mempool

\* C13: a bumpfee call whose replacement is committed while the record on
\* the original cannot be written returns a result, not an error: txid,
\* origfee and fee, with a warning in the errors list; the replacement stays
\* in the wallet and in the mempool
C13_UnmarkedIsWarning ==
    [][BumpCallPassesChecks =>
       \A options \in BumpOptions, collab \in Collaborators :
          (~collab.persisted /\ BumpCommitted(options, collab)) =>
              /\ rpcResult'.error = "ok"
              /\ "NotMarkedReplaced" \in rpcResult'.errors
              /\ rpcResult'.txid \in DOMAIN mapWallet'
              /\ mapWallet'[rpcResult'.txid].mapValue.replaces_txid = rpcResult'.hash
              /\ rpcResult'.txid \in DOMAIN mempool'
              /\ rpcResult'.origfee = OldFee(rpcResult'.hash)
              /\ rpcResult'.fee = OldFee(rpcResult'.txid)]_vars

\* C13 witness: a result that carries the warning; the replacement is in the
\* wallet and the original carries no link to it
C13_Witness ==
    /\ BumpOk
    /\ "NotMarkedReplaced" \in rpcResult.errors
    /\ rpcResult.txid \in DOMAIN mapWallet
    /\ mapWallet[rpcResult.hash].mapValue.replaced_by_txid = NullHash

\* the reply bumpfee gives to a call in the current state
BumpFeeReplyNow(hash, options, collab) ==
    BumpFeeReply(hash, BumpFeeOutcome(hash, options, collab), collab.accepted, collab.persisted)

\* bumpfee takes the call in the current state
BumpFeeTakes(hash, options, collab) ==
    /\ Cardinality(DOMAIN mapWallet) < MaxWalletTx
    /\ Asked(BumpFeeOutcome(hash, options, AllGood), collab)

\* the answers of the signer, the other collaborators willing
Signers == {AllGood, [AllGood EXCEPT !.signOk = FALSE]}

\* a bumpfee call that fails
BumpCallFails == BumpCall /\ rpcResult'.error # "ok"

\* the same call made again in the state this step leaves gets the reply
\* this step gave
RepeatedCallRepliesAlike ==
    \A hash \in BumpTargets :
       hash = rpcResult'.hash =>
          IF EligibilityError(hash) # "ok"
          THEN EligibilityError(hash)' = rpcResult'.error
          ELSE \A options \in BumpOptions, collab \in Signers :
                  (/\ BumpFeeOutcome(hash, options, collab).error = rpcResult'.error
                   /\ BumpFee(hash, options, collab)) =>
                       /\ BumpFeeTakes(hash, options, collab)'
                       /\ BumpFeeReplyNow(hash, options, collab)' = rpcResult'

\* C14: when a bumpfee call fails, the same call made again at once, with the
\* same txid and options and the signer answering as before, is refused
\* with the same error: the failed call left everything bumpfee reads as it
\* was, or else the reply the same call gets in the state it left is the
\* reply it got
C14_FailureRepeats ==
    [][BumpCallFails =>
          \/ UNCHANGED <<mapWallet, mempool, minMempoolFee, feeEstimate, payTxFee, policy,
                         fLocked>>
          \/ RepeatedCallRepliesAlike]_vars

\* C14 witness: a call on an unreplaced transaction refused at the fee
\* checks, after the eligibility and option checks passed
C14_Witness ==
    /\ rpcResult.method = "bumpfee"
    /\ rpcResult.error \in {"TotalFeeBelowMinimum", "FeeTooHigh", "BelowMempoolMinFee",
                            "ChangeTooSmall"}
    /\ mapWallet[rpcResult.hash].mapValue.replaced_by_txid = NullHash
    /\ Replacements(rpcResult.hash) = {}

\* the relay-fee floor for the maximum signed size of the transaction of the
\* last call
RequiredFeeOfCall == GetRequiredFee(CalculateMaximumSignedTxSize(rpcResult.hash))

C15_WitnessRefused ==
    rpcResult.method = "bumpfee" /\ rpcResult.error = "TotalFeeBelowRequired"

\* nNewFee and nNewFeeRate as bumpfee resolves them for a call
ResolvedOfCall(hash, options) ==
    ResolveFee(options, CFeeRate(OldFee(hash), GetVirtualTransactionSize(hash)),
               CalculateMaximumSignedTxSize(hash))

\* the step is the bumpfee call with these options, the options are valid
\* and the fee rate they resolve to is below the mempool's minimum fee rate
BumpBelowMempoolMin(options, collab) ==
    /\ OptionsError(options, CalculateMaximumSignedTxSize(rpcResult'.hash)) = "ok"
    /\ ResolvedOfCall(rpcResult'.hash, options).error = "ok"
    /\ ResolvedOfCall(rpcResult'.hash, options).nNewFeeRate < minMempoolFee
    /\ BumpFee(rpcResult'.hash, options, collab)

\* the fee rate a successful call resolved, over the maximum signed size
NewFeeRateOfReply(reply) ==
    CFeeRate(reply.origfee + reply.nDelta, CalculateMaximumSignedTxSize(reply.hash))

\* C16 as stated: a bumpfee call, with a totalFee or without, whose new fee
\* rate is below the mempool's minimum fee rate fails with the error that
\* asks for a higher totalFee and changes nothing, and no call succeeds with
\* a new fee rate below that minimum
C16_AsksForHigherTotalFee ==
    [][BumpCallPassesChecks =>
          /\ rpcResult'.error = "ok" => NewFeeRateOfReply(rpcResult') >= minMempoolFee
          /\ \A options \in BumpOptions, collab \in Collaborators :
                BumpBelowMempoolMin(options, collab) =>
                    /\ rpcResult'.error = "BelowMempoolMinFee"
                    /\ mapWallet' = mapWallet /\ mempool' = mempool]_vars

\* C16: a bumpfee call, with a totalFee or without, whose new fee rate is
\* below the mempool's minimum fee rate fails and changes nothing; the error
\* asks for a higher totalFee unless the new fee is above maxTxFee, which is
\* checked first and reported as a fee too high; no call succeeds with a new
\* fee rate below that minimum
C16_BelowMempoolMinRefused ==
    [][BumpCallPassesChecks =>
          /\ rpcResult'.error = "ok" => NewFeeRateOfReply(rpcResult') >= minMempoolFee
          /\ \A options \in BumpOptions, collab \in Collaborators :
                BumpBelowMempoolMin(options, collab) =>
                    /\ rpcResult'.error =
                          IF ExceedsMaxTxFee(ResolvedOfCall(rpcResult'.hash, options).nNewFee)
                          THEN "FeeTooHigh" ELSE "BelowMempoolMinFee"
                    /\ mapWallet' = mapWallet /\ mempool' = mempool]_vars

\* C16 witness: a call refused for a new fee rate below the mempool's minimum
\* fee rate, the transaction left unreplaced
C16_Witness ==
    /\ rpcResult.method = "bumpfee" /\ rpcResult.error = "BelowMempoolMinFee"
    /\ minMempoolFee > 0
    /\ mapWallet[rpcResult.hash].mapValue.replaced_by_txid = NullHash
    /\ Replacements(rpcResult.hash) = {}

\* C16 witness of a success: a bump at or above a positive mempool minimum
C16_WitnessOk ==
    BumpOk /\ minMempoolFee > 0 /\ NewFeeRateOfReply(rpcResult) >= minMempoolFee

\* a step that is a payment call with a new reply
SendCall ==
    /\ rpcResult' # rpcResult
    /\ rpcResult'.method \in {"sendtoaddress", "sendfromaddress", "sendmany"}

\* the transaction the call of this step sent pays the key the pool would
\* hand out
PaysNextPoolKey ==
    /\ setKeyPool # <<>>
    /\ \E i \in 1..Len(rpcResult'.txid.vout) :
          rpcResult'.txid.vout[i].scriptPubKey = Head(setKeyPool)

C17_WitnessKept ==
    /\ SendOk
    /\ \E i \in 1..Len(rpcResult.txid.vout) : rpcResult.txid.vout[i].scriptPubKey = Head(KeyPool)
    /\ setKeyPool = Tail(KeyPool)

\* C17 witness of a returned key: a transaction sent whose change was dust,
\* the pool holding every key
C17_WitnessReturned ==
    /\ SendOk
    /\ ChangeOutputs(rpcResult.txid) = {}
    /\ setKeyPool = KeyPool

\* the call of this step was refused with error and touched neither the
\* wallet, the mempool nor the key pool
RefusedWith(error) ==
    /\ rpcResult'.error = error
    /\ UNCHANGED <<mapWallet, mempool, setKeyPool>>

\* the step is a sendfromaddress call whose amount is above the balance of
\* the address it is to pay from
SendFromAddressShort(fromAddress, req, collab) ==
    /\ req.nAmount > GetAddressBalance(fromAddress)
    /\ SendFromAddress(fromAddress, req.address, req.nAmount, req.fSubtractFeeFromAmount,
                       collab)

\* the step is a sendmany call that names the address to pay from, the sum of
\* its amounts above the balance of that address
SendManyShort(req, collab) ==
    /\ req.strFromAddress # ""
    /\ GetAddressBalance(req.strFromAddress) < TotalAmount(req.sendTo)
    /\ SendMany(req.sendTo, req.strFromAddress, req.strChangeAddress, req.nMinDepth,
                req.subtractFeeFromAmount, collab)

\* the value of the coins of the wallet, whatever address they are at
WalletBalance ==
    LET coins == SetToSeq(AvailableCoins)
    IN  SumSeq([i \in 1..Len(coins) |-> CoinOut(coins[i]).nValue])

\* C19: a sendfromaddress call, or a sendmany call that names the address to
\* pay from, whose amounts sum to more than the balance of that address fails
\* and touches neither wallet, mempool nor key pool, whatever else the wallet
\* holds; a request that is otherwise valid, the wallet unlocked, is refused
\* for insufficient funds
C19_SingleAddressInsufficient ==
    [][SendCall =>
          /\ \A fromAddress \in FromAddresses, req \in SendRequests \cup NoAmountRequests,
                collab \in Collaborators :
                SendFromAddressShort(fromAddress, req, collab) =>
                    /\ rpcResult'.error # "ok"
                    /\ RefusedWith(IF ~IsValid(req.address) THEN "InvalidAddress"
                                   ELSE IF fLocked THEN "WalletUnlockNeeded"
                                   ELSE "InsufficientFunds")
          /\ \A req \in SendManyRequests, collab \in Collaborators :
                SendManyShort(req, collab) =>
                    /\ rpcResult'.error # "ok"
                    /\ RefusedWith(IF ~IsValid(req.strChangeAddress) /\ req.strChangeAddress # ""
                                       THEN "InvalidAddress"
                                   ELSE IF RecipientsError(req.sendTo) # "ok"
                                       THEN RecipientsError(req.sendTo)
                                   ELSE IF fLocked THEN "WalletUnlockNeeded"
                                   ELSE "InsufficientFunds")]_vars

\* C19 witness: a call paying from addrA refused for insufficient funds in a
\* wallet that holds nothing at addrA and thirty times the least amount
\* asked elsewhere
C19_Witness ==
    /\ rpcResult.method \in {"sendfromaddress", "sendmany"}
    /\ rpcResult.error = "InsufficientFunds"
    /\ GetAddressBalance("addrA") = 0
    /\ WalletBalance >= 30000
    /\ setKeyPool = KeyPool

\* the step is a sendmany call with an entry that repeats an address or has
\* an amount that is not positive
SendManyBadEntry(req, collab) ==
    /\ \E i \in 1..Len(req.sendTo) :
          \/ req.sendTo[i].nAmount <= 0
          \/ \E j \in 1..(i - 1) : req.sendTo[j].name = req.sendTo[i].name
    /\ SendMany(req.sendTo, req.strFromAddress, req.strChangeAddress, req.nMinDepth,
                req.subtractFeeFromAmount, collab)

\* C20: a sendtoaddress, sendfromaddress or sendmany call with an amount
\* that is zero or negative, and a sendmany call that names an address
\* twice, is refused and touches neither wallet, mempool nor key pool,
\* locked or not; the addresses being valid, the error is the invalid amount
\* or the duplicated address of the first entry at fault
C20_BadRecipientsRefused ==
    [][SendCall =>
          /\ \A req \in SendRequests \cup NoAmountRequests, collab \in Collaborators :
                (/\ req.nAmount <= 0
                 /\ \/ SendToAddress(req.address, req.nAmount, req.fSubtractFeeFromAmount,
                                      collab)
                    \/ \E fromAddress \in FromAddresses :
                          SendFromAddress(fromAddress, req.address, req.nAmount,
                                          req.fSubtractFeeFromAmount, collab)) =>
                    RefusedWith(IF IsValid(req.address) THEN "InvalidAmountForSend"
                                ELSE "InvalidAddress")
          /\ \A req \in SendManyRequests, collab \in Collaborators :
                SendManyBadEntry(req, collab) =>
                    /\ rpcResult'.error \in {"InvalidAddress", "DuplicatedAddress",
                                              "InvalidAmountForSend"}
                    /\ RefusedWith(IF (req.strFromAddress # "" /\ ~IsValid(req.strFromAddress))
                                      \/ (req.strChangeAddress # "" /\ ~IsValid(req.strChangeAddress))
                                   THEN "InvalidAddress" ELSE RecipientsError(req.sendTo))]_vars

\* C20 witness: a sendmany call that names an address twice, refused while
\* the address it pays from would cover the amounts
C20_Witness ==
    /\ rpcResult.method = "sendmany" /\ rpcResult.error = "DuplicatedAddress"
    /\ GetAddressBalance("addrA") >= 3000
    /\ setKeyPool = KeyPool

\* C20 witness of the amounts: a sendtoaddress call refused for its amount in
\* a wallet that would cover any amount asked
C20_WitnessAmount ==
    /\ rpcResult.method = "sendtoaddress" /\ rpcResult.error = "InvalidAmountForSend"
    /\ GetAddressBalance("addrA") = 100000

\* the threads between taking the locks and releasing them
InSequence == {t \in Threads : threads[t].pc \in {"locked", "built", "returning"}}

\* what thread t built is what its call builds in the wallet as it is now
DraftCurrent(t) ==
    \E fromAddress \in FromChoices(threads[t].request),
       fromAmount \in BuilderChoices(threads[t].request) :
        threads[t].out = Outcome(threads[t].request, fromAddress, fromAmount,
                                 threads[t].collab)

\* C18: with the RPC threads calling the payment calls, a payload call and
\* bumpfee on one wallet, at most one thread is between its lock and its
\* return, and it holds the lock; what a thread selected, built and signed
\* and has not yet committed is still what its call would select and build:
\* no step of another call came between
C18_OneSequenceAtATime ==
    /\ Cardinality(InSequence) <= 1
    /\ \A t \in InSequence : csWallet = t
    /\ \A t \in Threads : threads[t].pc = "built" => DraftCurrent(t)

\* C18 witness: one thread has built a payment that spends the funding coin
\* and holds the lock, while the other thread waits at the lock with a call
\* that pays from the same address
C18_Witness ==
    \E t \in Threads, u \in Threads :
        /\ threads[t].pc = "built" /\ threads[t].out.error = "ok"
        /\ threads[t].request.method = "sendfromaddress"
        /\ threads[u].pc = "waiting"
        /\ threads[u].request.method \in {"sendmany", "payload", "sendtoaddress"}
        /\ csWallet = t

\* C18 witness of the replacements: a thread has built the replacement of a
\* transaction while the other waits to replace the same transaction
C18_WitnessBump ==
    \E t \in Threads, u \in Threads :
        /\ threads[t].pc = "built" /\ threads[t].out.error = "ok"
        /\ threads[t].request.method = "bumpfee"
        /\ threads[u].pc = "waiting"
        /\ threads[u].request.method = "bumpfee"
        /\ threads[u].request # threads[t].request

\* the sequence numbers of the inputs of a transaction
SequencesOf(tx) == [i \in 1..Len(tx.vin) |-> tx.vin[i].nSequence]

\* the sequence numbers a replacement is to have: with replaceable false,
\* those below 0xfffffffe raised to it and the others kept; else those of
\* the original
SequencesAsked(tx, options) ==
    [i \in 1..Len(tx.vin) |->
        IF options.hasReplaceable /\ ~options.replaceable
              /\ tx.vin[i].nSequence < SEQUENCE_NON_REPLACEABLE
        THEN SEQUENCE_NON_REPLACEABLE ELSE tx.vin[i].nSequence]

\* C23: the replacement a bumpfee call commits with the option replaceable
\* false has every input sequence number at least 0xfffffffe, those of the
\* original below it being raised to exactly that and the others kept, and
\* does not signal replaceability; with replaceable true or not given the
\* sequence numbers are those of the original
C23_SequenceNumbers ==
    [][(BumpCall /\ rpcResult'.error = "ok") =>
       \A options \in BumpOptions, collab \in Collaborators :
          (/\ BumpFeeOutcome(rpcResult'.hash, options, collab).tx = rpcResult'.txid
           /\ BumpFee(rpcResult'.hash, options, collab)) =>
              /\ SequencesOf(rpcResult'.txid) = SequencesAsked(rpcResult'.hash, options)
              /\ (options.hasReplaceable /\ ~options.replaceable)
                    => ~SignalsOptInRBF(rpcResult'.txid)
              /\ ~(options.hasReplaceable /\ ~options.replaceable)
                    => SequencesOf(rpcResult'.txid) = SequencesOf(rpcResult'.hash)]_vars

\* C23 witness: the replacement of the transaction of two inputs, made with
\* replaceable false: the first sequence number raised, the final one kept
C23_Witness ==
    /\ BumpOk
    /\ rpcResult.hash = TwoInputTx
    /\ SequencesOf(rpcResult.txid) = <<SEQUENCE_NON_REPLACEABLE, SEQUENCE_FINAL>>

\* C23 witness of the other case: a replacement that keeps the sequence
\* numbers of the transaction of two inputs
C23_WitnessKept ==
    /\ BumpOk
    /\ rpcResult.hash = TwoInputTx
    /\ SequencesOf(rpcResult.txid) = SequencesOf(TwoInputTx)

\* the last call was a bumpfee call that came to the rebuild step, where
\* nDelta is computed and asserted positive
ReachedRebuild ==
    /\ rpcResult.method = "bumpfee"
    /\ rpcResult.error \in {"ok", "AssertionFailed", "ChangeTooSmall", "CantSign"}

\* C25: a bumpfee call that reaches the rebuild step has nDelta, the new
\* fee less the old fee, above zero: the assertion there does not fire
C25_DeltaPositive == ReachedRebuild => (rpcResult.nDelta > 0 /\ rpcResult.error # "AssertionFailed")

\* the transactions a step adds to the wallet
NewWalletTxs == DOMAIN mapWallet' \ DOMAIN mapWallet

\* the outpoints a transaction spends
Spends(tx) == {tx.vin[i].prevout : i \in 1..Len(tx.vin)}

\* C22 as stated: no transaction that a payment call or bumpfee builds and
\* commits spends an outpoint that is locked when it is built
C22_NoLockedCoinSpent ==
    [][\A tx \in NewWalletTxs : Spends(tx) \cap setLockedCoins = {}]_vars

\* C22: no transaction that a payment call builds from coins it selects
\* spends an outpoint that is locked when it is built; a locked coin is spent
\* by such a call only after a lockunspent call unlocked it; the replacement
\* bumpfee builds spends the outpoints of the original, locked or not
C22_NoLockedCoinSelected ==
    [][\A tx \in NewWalletTxs :
          /\ mapWallet'[tx].mapValue.replaces_txid = NullHash
                => Spends(tx) \cap setLockedCoins = {}
          /\ mapWallet'[tx].mapValue.replaces_txid # NullHash
                => Spends(tx) = Spends(mapWallet'[tx].mapValue.replaces_txid)]_vars

\* C22 witness: a payment was committed while one of the two coins of the
\* address is locked and unspent; it spends the other coin only
C22_Witness ==
    /\ SendOk
    /\ rpcResult.txid \in DOMAIN mapWallet
    /\ \E c \in setLockedCoins :
          /\ ~IsSpent(c)
          /\ c.hash \in DOMAIN mapWallet
          /\ CoinOut(c).scriptPubKey = "addrA"
          /\ Spends(rpcResult.txid) # {}
          /\ c \notin Spends(rpcResult.txid)
          /\ \A d \in Spends(rpcResult.txid) : CoinOut(d).scriptPubKey = "addrA"

\* C22 witness of the unlocking: a coin that was locked has been unlocked and
\* a payment spends it
C22_WitnessUnlocked ==
    /\ SendOk
    /\ setLockedCoins = {[hash |-> FundingTx2, n |-> 0]}
    /\ [hash |-> FundingTx, n |-> 0] \in Spends(rpcResult.txid)
    /\ Cardinality(Spends(rpcResult.txid)) = 1

\* a step that is a lockunspent call refused for one of its entries
LockCallRefused ==
    /\ rpcResult'.method = "lockunspent"
    /\ rpcResult'.error \in {"ExpectedObject", "ExpectedHexTxid", "VoutMustBePositive"}
    /\ mapWallet' = mapWallet

\* C27: a lockunspent call refused for an entry that is not an object, a
\* txid that is not hex or a negative vout leaves the locked coins as they
\* were
C27_RefusedLockChangesNothing ==
    [][LockCallRefused => setLockedCoins' = setLockedCoins]_vars

\* the last call was a bumpfee call whose replacement the mempool rejected
\* while the record on the original was written
BumpRejected ==
    /\ BumpOk
    /\ "Rejected" \in rpcResult.errors
    /\ "NotMarkedReplaced" \notin rpcResult.errors

\* C26 as stated: the original of a replacement that the mempool rejected
\* is not left marked as replaced by it
C26_RejectedLeavesUnmarked ==
    BumpRejected => mapWallet[rpcResult.hash].mapValue.replaced_by_txid # rpcResult.txid

\* C26: the original of a replacement that the mempool rejected is marked
\* as replaced by it all the same, the replacement being in the wallet, and
\* a later bumpfee call on the original is refused
C26_RejectedStillMarked ==
    BumpRejected =>
        /\ mapWallet[rpcResult.hash].mapValue.replaced_by_txid = rpcResult.txid
        /\ rpcResult.txid \in DOMAIN mapWallet
        /\ EligibilityError(rpcResult.hash) # "ok"

\* C26 witness: the original is still in the mempool and unconfirmed, the
\* rejected replacement is not, and the original would pass every check but
\* the one for the mark
C26_Witness ==
    /\ BumpRejected
    /\ rpcResult.hash \in DOMAIN mempool
    /\ rpcResult.txid \notin DOMAIN mempool
    /\ EligibilityError(rpcResult.hash) = "AlreadyBumped"

\* the invalid-parameter error an options object asks for when bumpfee is
\* called on hash: "none" when the options are none of the three cases
InvalidOptions(hash, options) ==
    IF options.hasConfTarget /\ options.hasTotalFee THEN "ConfTargetAndTotalFee"
    ELSE IF options.hasConfTarget /\ options.confTarget <= 0 THEN "InvalidConfTarget"
    ELSE IF /\ options.hasTotalFee
            /\ hash \in DOMAIN mapWallet
            /\ options.totalFee < GetRequiredFee(CalculateMaximumSignedTxSize(hash))
        THEN "TotalFeeBelowRequired"
    ELSE "none"

\* C28: a bumpfee call whose options set both confTarget and totalFee, a
\* confTarget that is not positive or a totalFee below the required fee is
\* refused with that error when the transaction passes every check made on
\* it, and with the error of the first such check that fails otherwise;
\* wallet and mempool are left as they were
C28_OptionErrorsAfterEligibility ==
    [][BumpCall =>
       \A options \in BumpOptions :
          InvalidOptions(rpcResult'.hash, options) # "none" =>
              \/ /\ rpcResult'.error = IF EligibilityError(rpcResult'.hash) = "ok"
                                        THEN InvalidOptions(rpcResult'.hash, options)
                                        ELSE EligibilityError(rpcResult'.hash)
                 /\ mapWallet' = mapWallet
                 /\ mempool' = mempool
              \/ \A collab \in Collaborators :
                     ~BumpFee(rpcResult'.hash, options, collab)]_vars

\* C28 witness: a call refused for its confirmation target on a transaction
\* that passes every check made on it
C28_Witness ==
    /\ rpcResult.method = "bumpfee"
    /\ rpcResult.error = "InvalidConfTarget"
    /\ EligibilityError(rpcResult.hash) = "ok"

\* C28 witnesses of the two other errors
C28_WitnessBoth ==
    /\ rpcResult.method = "bumpfee"
    /\ rpcResult.error = "ConfTargetAndTotalFee"
    /\ EligibilityError(rpcResult.hash) = "ok"

C28_WitnessTotalFee ==
    /\ rpcResult.method = "bumpfee"
    /\ rpcResult.error = "TotalFeeBelowRequired"
    /\ EligibilityError(rpcResult.hash) = "ok"

\* a step that is a call sending a payload
PayloadCall == rpcResult' # rpcResult /\ rpcResult'.method = "payload"

C21_WitnessEstimate ==
    /\ rpcResult.method = "payload" /\ rpcResult.error = "ok"
    /\ rpcResult.txid \in DOMAIN mapWallet
    /\ OldFee(rpcResult.txid) > 100 /\ OldFee(rpcResult.txid) < 1000

\* the amount SendWithOpreturn asks CreateTransaction to find coins for
OpreturnTarget(address, fee) == OpreturnRecipient(address).nAmount + fee

\* C29: in a payload call from an address whose balance covers the fixed
\* fee, the amount of the recipient and the fee together do not exceed the
\* balance, and the call does not fail for want of funds
C29_FundableWhenFeeCovered ==
    [][PayloadCall =>
       \A req \in PayloadRequests, fromAmount \in BOOLEAN, collab \in Collaborators :
          (/\ ~fLocked
           /\ req.fee <= GetAddressBalance(req.address)
           /\ SendWithOpreturn(req.address, req.fee, fromAmount, collab)) =>
              /\ OpreturnTarget(req.address, req.fee) <= GetAddressBalance(req.address)
              /\ rpcResult'.error \notin {"InsufficientFunds", "InsufficientFundsForFee"}]_vars

\* a step that is a sendmany call
SendManyCall == rpcResult' # rpcResult /\ rpcResult'.method = "sendmany"

\* the value of the coins of an address that have at least nMinDepth
\* confirmations
BalanceAtDepth(address, nMinDepth) ==
    LET coins == SelectSeq(CoinsOf(address), LAMBDA c : mapWallet[c.hash].depth >= nMinDepth)
    IN  SumSeq([i \in 1..Len(coins) |-> CoinOut(coins[i]).nValue])

\* C24: the transaction a successful sendmany call with minconf nMinDepth
\* commits spends only coins that had at least nMinDepth confirmations
\* when it was built, and the coins of that depth at the address it pays
\* from covered the total amount, whether the address was given or selected
C24_MinconfHonoured ==
    [][(SendManyCall /\ rpcResult'.error = "ok") =>
       \A req \in SendManyRequests, collab \in Collaborators :
          SendMany(req.sendTo, req.strFromAddress, req.strChangeAddress, req.nMinDepth,
                   req.subtractFeeFromAmount, collab) =>
              /\ \A c \in Spends(rpcResult'.txid) : mapWallet[c.hash].depth >= req.nMinDepth
              /\ \E a \in AddressBook :
                    /\ \A c \in Spends(rpcResult'.txid) : CoinOut(c).scriptPubKey = a
                    /\ BalanceAtDepth(a, req.nMinDepth) >= TotalAmount(req.sendTo)]_vars

\* a step that is a sendfromaddress call
SendFromAddressCall == rpcResult' # rpcResult /\ rpcResult'.method = "sendfromaddress"

\* C30: a sendfromaddress call with the amount as a number or as a string
\* ends as the same call without comments ends, and the transaction it
\* commits holds the comment exactly when the comment is a string that is
\* not empty, and the comment_to exactly when the comment_to is a string
\* that is not empty
C30_CommentsStored ==
    [][SendFromAddressCall =>
       \A address \in {"ext", "ext2", "bad"}, amount \in AmountParams, nAmount \in {1000, 0},
          c \in CommentParams :
          SendFromAddressParams("addrA", address, amount, nAmount, c.comment, c.comment_to,
                                AllGood) =>
              /\ rpcResult'.error =
                    SendFromAddressOutcome("addrA", address, nAmount, FALSE, AllGood).error
              /\ rpcResult'.error = "ok" =>
                    LET notes == WalletComments_OwnParameter(amount, c.comment, c.comment_to)
                    IN  /\ mapWallet'[rpcResult'.txid].mapValue.comment = notes.comment
                        /\ mapWallet'[rpcResult'.txid].mapValue.to = notes.to]_vars

=============================================================================
